---- MODULE Spec2Model ----
(***************************************************************************)
(* Verification model of git-simple-read-mcp: the pattern matcher          *)
(* (git_operations.go) and the keyword search engine (SearchFilesEnhanced  *)
(* and its helpers) behind the search_files tool.                          *)
(*                                                                         *)
(* Strings are sequences of one-character strings, so that prefix, suffix, *)
(* split, glob matching and parsing are computed the way the Go code       *)
(* computes them.                                                          *)
(***************************************************************************)
EXTENDS Integers, Sequences, FiniteSets, TLC

VARIABLES call, tree, session, request, response, rerun, workspace, memos

vars == <<call, tree, session, request, response, rerun, workspace, memos>>

(***************************************************************************)
(* Bounds of the model.                                                    *)
(***************************************************************************)
\* path segments of a generated relative path
MaxDepth == 3
\* '/'-separated segments of a generated pattern
MaxPatSegs == 3
\* patterns in an include or exclude list
MaxPatterns == 2
\* keywords of a search request
MaxKeywords == 2
\* largest limit a request or a session default asks for
MaxLimit == 2

(***************************************************************************)
(* Go's strings package on sequences of characters.                        *)
(***************************************************************************)
HasPrefix(s, p) == Len(p) <= Len(s) /\ SubSeq(s, 1, Len(p)) = p

HasSuffix(s, p) == Len(p) <= Len(s) /\ SubSeq(s, Len(s) - Len(p) + 1, Len(s)) = p

TrimPrefix(s, p) == IF HasPrefix(s, p) THEN SubSeq(s, Len(p) + 1, Len(s)) ELSE s

TrimSuffix(s, p) == IF HasSuffix(s, p) THEN SubSeq(s, 1, Len(s) - Len(p)) ELSE s

\* strings.Index: first position of sub in s, 0 when absent
Index(s, sub) ==
    LET hits == {i \in 1..(Len(s) - Len(sub) + 1) : SubSeq(s, i, i + Len(sub) - 1) = sub}
    IN  IF hits = {} THEN 0 ELSE CHOOSE i \in hits : \A j \in hits : i <= j

Contains(s, sub) == Index(s, sub) # 0

RECURSIVE Split(_, _)
\* strings.Split with a non-empty separator: empty fields are kept
Split(s, sep) ==
    LET i == Index(s, sep)
    IN  IF i = 0 THEN <<s>>
        ELSE <<SubSeq(s, 1, i - 1)>> \o Split(SubSeq(s, i + Len(sep), Len(s)), sep)

RECURSIVE Join(_, _)
Join(parts, sep) ==
    IF parts = <<>> THEN <<>>
    ELSE IF Len(parts) = 1 THEN parts[1]
    ELSE parts[1] \o sep \o Join(Tail(parts), sep)

Slash == <<"/">>
StarStar == <<"*", "*">>

(***************************************************************************)
(* path/filepath                                                           *)
(***************************************************************************)
RECURSIVE StripTrailingSlashes(_)
StripTrailingSlashes(s) ==
    IF s # <<>> /\ s[Len(s)] = "/" THEN StripTrailingSlashes(SubSeq(s, 1, Len(s) - 1)) ELSE s

\* filepath.Base
Base(path) ==
    IF path = <<>> THEN <<".">>
    ELSE LET p == StripTrailingSlashes(path)
         IN  IF p = <<>> THEN Slash
             ELSE LET parts == Split(p, Slash) IN parts[Len(parts)]

RECURSIVE Match(_, _)
\* filepath.Match for patterns made of literals, '*' and '?': '*' and '?'
\* never match the separator
Match(pat, name) ==
    IF pat = <<>> THEN name = <<>>
    ELSE IF Head(pat) = "*"
         THEN Match(Tail(pat), name)
              \/ (name # <<>> /\ Head(name) # "/" /\ Match(pat, Tail(name)))
    ELSE IF Head(pat) = "?"
         THEN name # <<>> /\ Head(name) # "/" /\ Match(Tail(pat), Tail(name))
    ELSE name # <<>> /\ Head(name) = Head(pat) /\ Match(Tail(pat), Tail(name))

(***************************************************************************)
(* Pattern matcher (git_operations.go)                                     *)
(***************************************************************************)
RECURSIVE matchesPattern(_, _)
RECURSIVE matchesRecursivePattern(_, _)

\* the suffix branch of matchesRecursivePattern, lines 1162-1185
matchesRecursiveSuffix(filePath, prefix, suffix) ==
    IF Contains(suffix, <<"*">>) /\ ~Contains(suffix, StarStar)
    THEN LET remaining == IF prefix # <<>>
                          THEN TrimPrefix(TrimPrefix(filePath, prefix), Slash)
                          ELSE filePath
             segments == Split(remaining, Slash)
         IN  Match(suffix, Base(remaining))
             \/ \E i \in 1..Len(segments) :
                   Match(suffix, Join(SubSeq(segments, i, Len(segments)), Slash))
    ELSE HasSuffix(filePath, suffix) \/ Contains(filePath, suffix \o Slash)

\* the bug the boundary check guards against: a plain string prefix
matchesRecursivePattern_stringPrefix(filePath, pattern) ==
    IF HasPrefix(pattern, <<"*", "*", "/">>) /\ HasSuffix(pattern, <<"/", "*", "*">>)
    THEN LET middle == TrimSuffix(TrimPrefix(pattern, <<"*", "*", "/">>), <<"/", "*", "*">>)
             parts == Split(filePath, Slash)
         IN  \E i \in 1..Len(parts) : parts[i] = middle
    ELSE IF HasPrefix(pattern, <<"*", "*", "/">>)
    THEN LET suffix == TrimPrefix(pattern, <<"*", "*", "/">>)
             parts == Split(filePath, Slash)
         IN  matchesPattern(filePath, suffix)
             \/ \E i \in 1..Len(parts) :
                   matchesPattern(Join(SubSeq(parts, i, Len(parts)), Slash), suffix)
    ELSE LET parts == Split(pattern, StarStar)
         IN  IF Len(parts) = 2
             THEN LET prefix == TrimSuffix(parts[1], Slash)
                      suffix == TrimPrefix(parts[2], Slash)
                  IN  IF prefix # <<>> /\ ~HasPrefix(filePath, prefix)
                      THEN FALSE
                      ELSE IF suffix # <<>>
                           THEN matchesRecursiveSuffix(filePath, prefix, suffix)
                           ELSE TRUE
             ELSE FALSE

matchesRecursivePattern(filePath, pattern) ==
    IF HasPrefix(pattern, <<"*", "*", "/">>) /\ HasSuffix(pattern, <<"/", "*", "*">>)
    THEN \* **/X/**: some path component equals X
         LET middle == TrimSuffix(TrimPrefix(pattern, <<"*", "*", "/">>), <<"/", "*", "*">>)
             parts == Split(filePath, Slash)
         IN  \E i \in 1..Len(parts) : parts[i] = middle
    ELSE IF HasPrefix(pattern, <<"*", "*", "/">>)
    THEN \* **/rest: rest against the path and every tail of its segments
         LET suffix == TrimPrefix(pattern, <<"*", "*", "/">>)
             parts == Split(filePath, Slash)
         IN  matchesPattern(filePath, suffix)
             \/ \E i \in 1..Len(parts) :
                   matchesPattern(Join(SubSeq(parts, i, Len(parts)), Slash), suffix)
    ELSE LET parts == Split(pattern, StarStar)
         IN  IF Len(parts) = 2
             THEN LET prefix == TrimSuffix(parts[1], Slash)
                      suffix == TrimPrefix(parts[2], Slash)
                  IN  IF prefix # <<>> /\ filePath # prefix
                         /\ ~HasPrefix(filePath, prefix \o Slash)
                      THEN FALSE
                      ELSE IF suffix # <<>>
                           THEN matchesRecursiveSuffix(filePath, prefix, suffix)
                           ELSE TRUE
             ELSE FALSE

\* the glob fallbacks of matchesPattern, lines 1085-1108
matchesGlob(filePath, pattern) ==
    \/ Match(pattern, Base(filePath))
    \/ Match(pattern, filePath)
    \/ /\ Contains(pattern, Slash)
       /\ LET parts == Split(filePath, Slash)
          IN  \E i \in 1..Len(parts) : Match(pattern, Join(SubSeq(parts, 1, i), Slash))

\* the bug the directory check guards against: "vendor/" taken as a string prefix
matchesPattern_stringPrefix(filePath, pattern) ==
    IF HasSuffix(pattern, Slash)
       /\ LET dirPattern == TrimSuffix(pattern, Slash)
          IN  filePath = dirPattern \/ HasPrefix(filePath, dirPattern)
    THEN TRUE
    ELSE IF Contains(pattern, StarStar)
    THEN matchesRecursivePattern(filePath, pattern)
    ELSE matchesGlob(filePath, pattern)

matchesPattern(filePath, pattern) ==
    IF HasSuffix(pattern, Slash)
       /\ LET dirPattern == TrimSuffix(pattern, Slash)
          IN  filePath = dirPattern \/ HasPrefix(filePath, dirPattern \o Slash)
    THEN TRUE
    ELSE IF Contains(pattern, StarStar)
    THEN matchesRecursivePattern(filePath, pattern)
    ELSE matchesGlob(filePath, pattern)

RECURSIVE matchesPatterns(_, _)
\* the loop of matchesPatterns: no patterns means match all
matchesPatterns(filePath, patterns) ==
    IF patterns = <<>> THEN TRUE
    ELSE IF matchesPattern(filePath, Head(patterns)) THEN TRUE
    ELSE IF Len(patterns) = 1 THEN FALSE
    ELSE matchesPatterns(filePath, Tail(patterns))

\* a plausible slip: the len(excludePatterns) > 0 guard left out, so that an
\* empty exclude list (which matchesPatterns matches) excludes every file
shouldIncludeFile_noGuard(filePath, includePatterns, excludePatterns) ==
    IF matchesPatterns(filePath, excludePatterns)
    THEN FALSE
    ELSE matchesPatterns(filePath, includePatterns)

shouldIncludeFile(filePath, includePatterns, excludePatterns) ==
    IF Len(excludePatterns) > 0 /\ matchesPatterns(filePath, excludePatterns)
    THEN FALSE
    ELSE matchesPatterns(filePath, includePatterns)

(***************************************************************************)
(* More of Go's strings and strconv, used by the search engine.            *)
(***************************************************************************)
Colon == <<":">>
Newline == <<"\n">>

ToLowerChar(c) ==
    CASE c = "M" -> "m"
      [] c = "N" -> "n"
      [] c = "V" -> "v"
      [] c = "W" -> "w"
      [] OTHER -> c

ToLower(s) == [i \in 1..Len(s) |-> ToLowerChar(s[i])]

IsSpace(c) == c \in {" ", "\t", "\n", "\r"}

RECURSIVE TrimLeft(_)
TrimLeft(s) == IF s # <<>> /\ IsSpace(Head(s)) THEN TrimLeft(Tail(s)) ELSE s

RECURSIVE TrimRight(_)
TrimRight(s) ==
    IF s # <<>> /\ IsSpace(s[Len(s)]) THEN TrimRight(SubSeq(s, 1, Len(s) - 1)) ELSE s

TrimSpace(s) == TrimRight(TrimLeft(s))

RECURSIVE SplitN(_, _, _)
\* strings.SplitN for n > 0: at most n fields, the last one the unsplit rest
SplitN(s, sep, n) ==
    LET i == Index(s, sep)
    IN  IF n = 1 \/ i = 0 THEN <<s>>
        ELSE <<SubSeq(s, 1, i - 1)>> \o SplitN(SubSeq(s, i + Len(sep), Len(s)), sep, n - 1)

Digits == <<"0", "1", "2", "3", "4", "5", "6", "7", "8", "9">>

DigitValue(c) == (CHOOSE i \in 1..10 : Digits[i] = c) - 1

IsDigit(c) == \E i \in 1..10 : Digits[i] = c

RECURSIVE Itoa(_)
\* strconv.Itoa for n >= 0
Itoa(n) == IF n < 10 THEN <<Digits[n + 1]>> ELSE Itoa(n \div 10) \o <<Digits[(n % 10) + 1]>>

RECURSIVE AtoiDigits(_, _)
AtoiDigits(s, acc) ==
    IF s = <<>> THEN acc ELSE AtoiDigits(Tail(s), acc * 10 + DigitValue(Head(s)))

\* strconv.Atoi on unsigned decimal text: [ok, value]
Atoi(s) ==
    IF s # <<>> /\ \A i \in 1..Len(s) : IsDigit(s[i])
    THEN [ok |-> TRUE, value |-> AtoiDigits(s, 0)]
    ELSE [ok |-> FALSE, value |-> 0]

\* a Go map as a function; the empty map is the empty function
EmptyMap == <<>>

MapPut(m, k, v) == [x \in (DOMAIN m) \cup {k} |-> IF x = k THEN v ELSE m[x]]

\* the orders in which a range over a map with key set S may visit its keys:
\* Go leaves the iteration order of a map unspecified
MapOrders(S) ==
    {o \in [1..Cardinality(S) -> S] : \A i, j \in 1..Cardinality(S) : o[i] = o[j] => i = j}

(***************************************************************************)
(* The repository: the tracked files of the working tree, in index order.  *)
(***************************************************************************)
\* candidate files in the byte order in which git lists them
AllFiles == << <<"M">>, <<"n">>, <<"v", "/", "n">> >>

Absent == [present |-> FALSE, lines |-> <<>>]

File(lines) == [present |-> TRUE, lines |-> lines]

\* contents a file may have: lines of text over the letters m, M, n
Contents ==
    { << <<"M">>, <<"n">> >>,
      << <<"m", "n">>, <<"n">> >>,
      << <<"n">> >> }

\* the file under v/ is absent or holds a single line, and some candidate
\* file is missing from the tree
Trees ==
    {t \in [1..Len(AllFiles) -> {Absent} \cup {File(c) : c \in Contents}] :
        /\ t[3] \in {Absent, File(<< <<"n">> >>)}
        /\ \E i \in 1..Len(AllFiles) : ~t[i].present}

\* the tracked files of a tree as a sequence of [path, lines]
TrackedFiles(t) ==
    LET present == SelectSeq([i \in 1..Len(AllFiles) |-> i], LAMBDA i : t[i].present)
    IN  [k \in 1..Len(present) |-> [path |-> AllFiles[present[k]], lines |-> t[present[k]].lines]]

(***************************************************************************)
(* git grep -n [-C N] <keyword>, run in the repository.  The keyword is a  *)
(* case-sensitive pattern; every keyword of the model is free of regular   *)
(* expression metacharacters, so a line matches when it contains it.       *)
(* The output is kept as its sequence of lines.                            *)
(***************************************************************************)
LineMatches(line, keyword) == Contains(line, keyword)

GrepMatchSet(lines, keyword) == {i \in 1..Len(lines) : LineMatches(lines[i], keyword)}

\* the lines git grep prints for one file: matches as path:N:text, context
\* lines as path-N-text, "--" between hunks that are not adjacent
GrepFileOutput(f, keyword, contextLines) ==
    LET hits == GrepMatchSet(f.lines, keyword)
        shown == {i \in 1..Len(f.lines) :
                    \E h \in hits : i >= h - contextLines /\ i <= h + contextLines}
        order == SelectSeq([i \in 1..Len(f.lines) |-> i], LAMBDA i : i \in shown)
        text(i) == IF i \in hits
                   THEN f.path \o Colon \o Itoa(i) \o Colon \o f.lines[i]
                   ELSE f.path \o <<"-">> \o Itoa(i) \o <<"-">> \o f.lines[i]
        gap(k) == IF k > 1 /\ order[k] # order[k - 1] + 1 THEN << <<"-", "-">> >> ELSE <<>>
        RECURSIVE emit(_)
        emit(k) == IF k > Len(order) THEN <<>> ELSE gap(k) \o <<text(order[k])>> \o emit(k + 1)
    IN  emit(1)

RECURSIVE GrepOutput(_, _, _, _)
GrepOutput(files, keyword, contextLines, first) ==
    IF files = <<>> THEN <<>>
    ELSE LET out == GrepFileOutput(Head(files), keyword, contextLines)
             sep == IF contextLines > 0 /\ ~first /\ out # <<>> THEN << <<"-", "-">> >> ELSE <<>>
         IN  sep \o out \o GrepOutput(Tail(files), keyword, contextLines, first /\ out = <<>>)

\* cmd.Output(): exit status 1 (err # nil) when no line matched
gitGrep(t, keyword, contextLines) ==
    LET out == GrepOutput(TrackedFiles(t), keyword, contextLines, TRUE)
    IN  [err |-> out = <<>>, output |-> out]

\* git ls-files
gitLsFiles(t) == [i \in 1..Len(TrackedFiles(t)) |-> TrackedFiles(t)[i].path]

\* GetFileContent(repoPath, filePath, 0): every line followed by "\n"
RECURSIVE ConcatLines(_)
ConcatLines(lines) ==
    IF lines = <<>> THEN <<>> ELSE Head(lines) \o Newline \o ConcatLines(Tail(lines))

GetFileContent(t, filePath) ==
    LET fs == SelectSeq(TrackedFiles(t), LAMBDA f : f.path = filePath)
    IN  IF fs = <<>> THEN [err |-> TRUE, content |-> <<>>]
        ELSE [err |-> FALSE, content |-> ConcatLines(fs[1].lines)]

(***************************************************************************)
(* The search engine (SearchFilesEnhanced and its helpers).  An operator   *)
(* that ranges over a Go map yields the SET of slices the range may        *)
(* produce, one per iteration order.                                       *)
(***************************************************************************)
MatchLine(n, content) == [LineNumber |-> n, Content |-> content, Context |-> <<>>]

SearchResult(path, matchType, matches) ==
    [Path |-> path, MatchType |-> matchType, Matches |-> matches]

\* the values of map m in each possible iteration order
RangeOverMap(m) == {[i \in 1..Len(o) |-> m[o[i]]] : o \in MapOrders(DOMAIN m)}

\* one line of git grep output, as parseGrepOutput takes it apart
ParseGrepLine(rawLine) ==
    LET line == TrimSpace(rawLine)
        parts == SplitN(line, Colon, 3)
    IN  IF line = <<>> \/ Len(parts) < 3 \/ ~Atoi(parts[2]).ok
        THEN [ok |-> FALSE]
        ELSE [ok |-> TRUE, filePath |-> parts[1], lineNum |-> Atoi(parts[2]).value,
              content |-> parts[3]]

RECURSIVE parseGrepLines(_, _, _)
\* the loop of parseGrepOutput building resultMap
parseGrepLines(lines, matchType, resultMap) ==
    IF lines = <<>> THEN resultMap
    ELSE LET pl == ParseGrepLine(Head(lines))
         IN  IF ~pl.ok THEN parseGrepLines(Tail(lines), matchType, resultMap)
             ELSE LET cur == IF pl.filePath \in DOMAIN resultMap
                             THEN resultMap[pl.filePath]
                             ELSE SearchResult(pl.filePath, matchType, <<>>)
                      upd == [cur EXCEPT !.Matches = Append(@, MatchLine(pl.lineNum, pl.content))]
                  IN  parseGrepLines(Tail(lines), matchType, MapPut(resultMap, pl.filePath, upd))

parseGrepOutput(output, matchType, hasContext) ==
    IF output = <<>> THEN {<<>>}
    ELSE RangeOverMap(parseGrepLines(output, matchType, EmptyMap))

\* every keyword occurs in the lower-cased content of the file
AllKeywordsInContent(t, filePath, keywords) ==
    LET c == GetFileContent(t, filePath)
    IN  /\ ~c.err
        /\ \A i \in 1..Len(keywords) : Contains(ToLower(c.content), ToLower(keywords[i]))

filterResultsByAllKeywords(t, results, keywords) ==
    SelectSeq(results, LAMBDA r : AllKeywordsInContent(t, r.Path, keywords))

RECURSIVE mergeDuplicates(_, _)
\* the loop of removeDuplicateResults building the map seen
mergeDuplicates(results, seen) ==
    IF results = <<>> THEN seen
    ELSE LET result == Head(results)
         IN  IF result.Path \in DOMAIN seen
             THEN LET existing == seen[result.Path]
                      mtype == IF result.MatchType = "filename" /\ existing.MatchType = "content"
                               THEN "both"
                               ELSE IF result.MatchType = "content"
                                       /\ existing.MatchType = "filename"
                               THEN "both"
                               ELSE existing.MatchType
                      merged == [existing EXCEPT !.Matches = @ \o result.Matches,
                                                 !.MatchType = mtype]
                  IN  mergeDuplicates(Tail(results), MapPut(seen, result.Path, merged))
             ELSE mergeDuplicates(Tail(results), MapPut(seen, result.Path, result))

\* a plausible slip: the match type of the first result is kept on a merge
removeDuplicateResults_keepsType(results) ==
    LET RECURSIVE merge(_, _)
        merge(rs, seen) ==
            IF rs = <<>> THEN seen
            ELSE LET result == Head(rs)
                 IN  IF result.Path \in DOMAIN seen
                     THEN merge(Tail(rs),
                                MapPut(seen, result.Path,
                                       [seen[result.Path] EXCEPT !.Matches = @ \o result.Matches]))
                     ELSE merge(Tail(rs), MapPut(seen, result.Path, result))
    IN  RangeOverMap(merge(results, EmptyMap))

removeDuplicateResults(results) == RangeOverMap(mergeDuplicates(results, EmptyMap))

RECURSIVE orModeResults(_, _, _, _)
\* the OR loop of searchInContent: one git grep per keyword, results appended
orModeResults(t, keywords, contextLines, results) ==
    IF keywords = <<>> THEN {results}
    ELSE LET g == gitGrep(t, Head(keywords), contextLines)
         IN  IF g.err THEN orModeResults(t, Tail(keywords), contextLines, results)
             ELSE UNION {orModeResults(t, Tail(keywords), contextLines, results \o kr) :
                           kr \in parseGrepOutput(g.output, "content", contextLines > 0)}

\* a plausible slip: the OR loop starts at the second keyword
searchInContent_orSkipsFirst(t, keywords, searchMode, contextLines) ==
    IF keywords = <<>> THEN {<<>>}
    ELSE IF searchMode = "or"
    THEN UNION {removeDuplicateResults(rs) :
                  rs \in orModeResults(t, Tail(keywords), contextLines, <<>>)}
    ELSE LET g == gitGrep(t, keywords[1], contextLines)
             parsed == IF g.err THEN {<<>>}
                       ELSE parseGrepOutput(g.output, "content", contextLines > 0)
         IN  IF Len(keywords) = 1 \/ g.err
             THEN UNION {removeDuplicateResults(rs) : rs \in parsed}
             ELSE UNION {removeDuplicateResults(
                             filterResultsByAllKeywords(t, rs, Tail(keywords))) :
                           rs \in parsed}

searchInContent(t, keywords, searchMode, contextLines) ==
    IF keywords = <<>> THEN {<<>>}
    ELSE IF searchMode = "or"
    THEN UNION {removeDuplicateResults(rs) :
                  rs \in orModeResults(t, keywords, contextLines, <<>>)}
    ELSE LET g == gitGrep(t, keywords[1], contextLines)
             parsed == IF g.err THEN {<<>>}
                       ELSE parseGrepOutput(g.output, "content", contextLines > 0)
         IN  IF Len(keywords) = 1 \/ g.err
             THEN UNION {removeDuplicateResults(rs) : rs \in parsed}
             ELSE UNION {removeDuplicateResults(
                             filterResultsByAllKeywords(t, rs, Tail(keywords))) :
                           rs \in parsed}

\* the test of searchInFilenames on one file name
FilenameMatches(filename, keywords, searchMode) ==
    IF searchMode = "or"
    THEN \E i \in 1..Len(keywords) : Contains(ToLower(filename), ToLower(keywords[i]))
    ELSE \A i \in 1..Len(keywords) : Contains(ToLower(filename), ToLower(keywords[i]))

searchInFilenames(t, keywords, searchMode) ==
    LET paths == SelectSeq([i \in 1..Len(gitLsFiles(t)) |-> TrimSpace(gitLsFiles(t)[i])],
                           LAMBDA fp : fp # <<>>
                                       /\ FilenameMatches(Base(fp), keywords, searchMode))
    IN  [i \in 1..Len(paths) |->
            SearchResult(paths[i], "filename", <<MatchLine(0, Base(paths[i]))>>)]

\* the include/exclude filter of the eight-argument SearchFilesEnhanced:
\* only files that pass shouldIncludeFile are candidates of a search
filterByPatterns(results, includePatterns, excludePatterns) ==
    SelectSeq(results, LAMBDA r : shouldIncludeFile(r.Path, includePatterns, excludePatterns))

\* a plausible slip: the cut keeps one result too many
applyLimit_offByOne(uniqueResults, maxResults) ==
    IF maxResults > 0 /\ Len(uniqueResults) > maxResults
    THEN SubSeq(uniqueResults, 1, maxResults + 1)
    ELSE uniqueResults

\* lines 47-49 of SearchFilesEnhanced
applyLimit(uniqueResults, maxResults) ==
    IF maxResults > 0 /\ Len(uniqueResults) > maxResults
    THEN SubSeq(uniqueResults, 1, maxResults)
    ELSE uniqueResults

\* the results a call may return (the repository is a valid git repository)
SearchFilesEnhanced(t, keywords, searchMode, includeFilename, contextLines, includePatterns, excludePatterns, maxResults) ==
    IF keywords = <<>> THEN {<<>>}
    ELSE UNION {
           LET filenameResults == IF includeFilename
                                  THEN searchInFilenames(t, keywords, searchMode)
                                  ELSE <<>>
               allResults == filterByPatterns(contentResults \o filenameResults,
                                              includePatterns, excludePatterns)
           IN  {applyLimit(u, maxResults) : u \in removeDuplicateResults(allResults)} :
           contentResults \in searchInContent(t, keywords, searchMode, contextLines)}

SearchFiles(t, keywords, searchMode, includeFilename, contextLines, includePatterns, excludePatterns, maxResults) ==
    SearchFilesEnhanced(t, keywords, searchMode, includeFilename, contextLines,
                        includePatterns, excludePatterns, maxResults)

(***************************************************************************)
(* Session defaults (session_config.go)                                    *)
(***************************************************************************)
\* globalSessionConfig = &SessionConfig{}
EmptySessionConfig ==
    [DefaultRepository |-> "",
     DefaultIncludePatterns |-> <<>>,
     DefaultExcludePatterns |-> <<>>,
     DefaultSearchLimit |-> 0,
     DefaultListFilesLimit |-> 0,
     DefaultMaxLines |-> 0,
     DefaultCommitLimit |-> 0]

SetSessionConfigValues(sc, config) ==
    [DefaultRepository |->
        IF config.DefaultRepository # "" THEN config.DefaultRepository
        ELSE sc.DefaultRepository,
     DefaultIncludePatterns |->
        IF Len(config.DefaultIncludePatterns) > 0 THEN config.DefaultIncludePatterns
        ELSE sc.DefaultIncludePatterns,
     DefaultExcludePatterns |->
        IF Len(config.DefaultExcludePatterns) > 0 THEN config.DefaultExcludePatterns
        ELSE sc.DefaultExcludePatterns,
     DefaultSearchLimit |->
        IF config.DefaultSearchLimit > 0 THEN config.DefaultSearchLimit
        ELSE sc.DefaultSearchLimit,
     DefaultListFilesLimit |->
        IF config.DefaultListFilesLimit > 0 THEN config.DefaultListFilesLimit
        ELSE sc.DefaultListFilesLimit,
     DefaultMaxLines |->
        IF config.DefaultMaxLines > 0 THEN config.DefaultMaxLines ELSE sc.DefaultMaxLines,
     DefaultCommitLimit |->
        IF config.DefaultCommitLimit > 0 THEN config.DefaultCommitLimit
        ELSE sc.DefaultCommitLimit]

ClearSessionConfig == EmptySessionConfig

GetRepository(sc, provided) == IF provided # "" THEN provided ELSE sc.DefaultRepository

GetIncludePatterns(sc, provided) ==
    IF Len(provided) > 0 THEN provided ELSE sc.DefaultIncludePatterns

GetExcludePatterns(sc, provided) ==
    IF Len(provided) > 0 THEN provided ELSE sc.DefaultExcludePatterns

DefaultSearchLimitFallback == 20

GetSearchLimit(sc, provided) ==
    IF provided > 0 THEN provided
    ELSE IF sc.DefaultSearchLimit > 0 THEN sc.DefaultSearchLimit
    ELSE DefaultSearchLimitFallback

(***************************************************************************)
(* The search_files tool (mcp_tools_git.go)                                *)
(***************************************************************************)
\* the text of a tool result, kept as its sequence of output lines
ErrorResult(msg) == [IsError |-> TRUE, Text |-> <<[kind |-> "error", msg |-> msg]>>]

\* the lines written for one SearchResult
FormatOneResult(sr) ==
    <<[kind |-> "file", path |-> sr.Path,
       label |-> CASE sr.MatchType = "filename" -> " [filename match]"
                   [] sr.MatchType = "content" -> " [content match]"
                   [] sr.MatchType = "both" -> " [filename + content match]"
                   [] OTHER -> ""]>>
    \o [i \in 1..Len(sr.Matches) |->
          IF sr.Matches[i].LineNumber = 0
          THEN [kind |-> "filename", text |-> sr.Matches[i].Content]
          ELSE [kind |-> "line", number |-> sr.Matches[i].LineNumber,
                text |-> TrimSpace(sr.Matches[i].Content)]]

RECURSIVE FormatAllResults(_)
FormatAllResults(results) ==
    IF results = <<>> THEN <<>>
    ELSE FormatOneResult(Head(results)) \o FormatAllResults(Tail(results))

formatSearchResults(results, keywords, searchMode) ==
    <<[kind |-> "header", keywords |-> keywords,
       joinedBy |-> IF searchMode = "or" THEN " OR " ELSE " AND ",
       found |-> Len(results)]>>
    \o (IF Len(results) = 0 THEN <<[kind |-> "none"]>> ELSE FormatAllResults(results))

\* the local variables of handleSearchFiles once the defaults are resolved
ResolveSearch(sc, args) ==
    [limit |-> GetSearchLimit(sc, args.Limit),
     searchMode |-> IF args.SearchMode = "" THEN "and" ELSE args.SearchMode,
     includePatterns |-> GetIncludePatterns(sc, args.IncludePatterns),
     excludePatterns |-> GetExcludePatterns(sc, args.ExcludePatterns),
     repository |-> GetRepository(sc, args.Repository)]

\* the one git repository of the workspace, and a name that is no directory
Repo == "repo"

Missing == "missing"

\* a directory .git exists in the path
isGitRepository(path) == path = Repo

\* the error results of the handler
NoKeywordsError(sc, args) ==
    {[resolved |-> ResolveSearch(sc, args), results |-> <<>>,
      result |-> ErrorResult("at least one keyword is required")]}

\* the single-repository search once the keywords are known to be there
searchSingleRepository(t, sc, args) ==
    LET r == ResolveSearch(sc, args)
    IN  IF r.repository = ""
        THEN {[resolved |-> r, results |-> <<>>,
               result |-> ErrorResult("repository required (no default set)")]}
        ELSE IF ~isGitRepository(r.repository)
        THEN {[resolved |-> r, results |-> <<>>,
               result |-> ErrorResult("Search failed: not a git repository")]}
        ELSE {[resolved |-> r, results |-> results,
               result |-> [IsError |-> FALSE,
                           Text |-> formatSearchResults(results, args.Keywords,
                                                        r.searchMode)]] :
                results \in SearchFiles(t, args.Keywords, r.searchMode,
                                        args.IncludeFilename, args.ContextLines,
                                        r.includePatterns, r.excludePatterns, r.limit)}

\* a plausible slip: the keyword list is not checked
handleSearchFiles_noKeywordCheck(t, sc, args) == searchSingleRepository(t, sc, args)

\* the outcomes of handleSearchFiles for a single-repository request:
\* [resolved, results, result] with result the CallToolResult
handleSearchFiles(t, sc, args) ==
    IF Len(args.Keywords) = 0
    THEN NoKeywordsError(sc, args)
    ELSE searchSingleRepository(t, sc, args)

(***************************************************************************)
(* Inputs of the pattern matcher.  "v" stands for a directory name such as *)
(* vendor, "vw" for a name that only starts with it (vendor2, vendorfile), *)
(* "w" for any other name.                                                 *)
(***************************************************************************)
Names == {<<"v">>, <<"v", "w">>, <<"w">>}

PatternSegments == Names \cup {<<"*">>, StarStar, <<"*", "w">>, <<"v", "*">>}

SeqsUpTo(S, n) == UNION {[1..k -> S] : k \in 1..n}

\* clean relative paths: no empty segment, no leading or trailing separator
Paths == {Join(segs, Slash) : segs \in SeqsUpTo(Names, MaxDepth)}

Patterns ==
    LET joined == {Join(segs, Slash) : segs \in SeqsUpTo(PatternSegments, MaxPatSegs)}
    IN  joined \cup {p \o Slash : p \in joined}

FilterPatterns == {<<"v", "/">>, <<"*", "w">>, <<"v", "/", "*", "*">>}

PatternLists == {<<>>} \cup SeqsUpTo(FilterPatterns, MaxPatterns)

NoCall == [fn |-> "none"]

(***************************************************************************)
(* Calls of the pure pattern functions: a behaviour is one call.  The path *)
(* is drawn in the initial state, the patterns when the call is made.      *)
(***************************************************************************)
PathInput(p) == [fn |-> "input", filePath |-> p]

CallMatchesPattern ==
    /\ call.fn = "input"
    /\ \E pat \in Patterns :
        /\ call' = [fn |-> "matchesPattern", filePath |-> call.filePath, pattern |-> pat,
                    result |-> matchesPattern(call.filePath, pat)]
        /\ UNCHANGED <<tree, session, request, response, rerun, workspace, memos>>

CallShouldIncludeFile ==
    /\ call.fn = "input"
    /\ \E inc \in PatternLists, exc \in PatternLists :
        /\ call' = [fn |-> "shouldIncludeFile", filePath |-> call.filePath,
                    includePatterns |-> inc, excludePatterns |-> exc,
                    result |-> shouldIncludeFile(call.filePath, inc, exc)]
        /\ UNCHANGED <<tree, session, request, response, rerun, workspace, memos>>

(***************************************************************************)
(* Inputs of the search tool.                                              *)
(***************************************************************************)
Keywords == {<<"m">>, <<"n">>}

KeywordLists == {<<>>} \cup SeqsUpTo(Keywords, MaxKeywords)

\* the arguments of a search_files request; a request that leaves the
\* repository to the session or names a missing one leaves the limit and the
\* patterns to the session too, and a request for context lines is plain
SearchArgs ==
    {a \in [Repository : {"", Repo, Missing},
            Keywords : KeywordLists,
            SearchMode : {"and", "or"},
            IncludeFilename : BOOLEAN,
            ContextLines : {0, 1},
            IncludePatterns : {<<>>, << <<"*", "n">> >>},
            ExcludePatterns : {<<>>, << <<"v", "/">> >>},
            Limit : (-1)..MaxLimit] :
        /\ a.IncludePatterns = <<>> \/ a.ExcludePatterns = <<>>
        /\ a.Limit < 0 =>
              /\ a.Repository = Repo /\ ~a.IncludeFilename
              /\ a.IncludePatterns = <<>> /\ a.ExcludePatterns = <<>>
        /\ a.Repository # Repo =>
              a.Limit = 0 /\ a.IncludePatterns = <<>> /\ a.ExcludePatterns = <<>>
        /\ a.Repository = Missing => ~a.IncludeFilename /\ a.ContextLines = 0
        /\ a.ContextLines > 0 =>
              /\ a.Repository = Repo /\ a.Limit = 0 /\ ~a.IncludeFilename
              /\ a.IncludePatterns = <<>> /\ a.ExcludePatterns = <<>>}

\* what a session "set" call may carry
SessionSetArgs ==
    {[EmptySessionConfig EXCEPT !.DefaultRepository = Repo,
                                !.DefaultExcludePatterns = << <<"v", "/">> >>,
                                !.DefaultSearchLimit = 1]}

NoRequest == [done |-> FALSE]

(***************************************************************************)
(* Tool calls.  A behaviour sets up the session, then runs one search and  *)
(* runs it a second time on the unchanged tree, with the same arguments or *)
(* with the mode switched from "and" to "or".                              *)
(***************************************************************************)
SessionSet ==
    /\ ~request.done
    /\ \E args \in SessionSetArgs : session' = SetSessionConfigValues(session, args)
    /\ UNCHANGED <<call, tree, request, response, rerun, workspace, memos>>

SessionClear ==
    /\ ~request.done
    /\ session # EmptySessionConfig
    /\ session' = ClearSessionConfig
    /\ UNCHANGED <<call, tree, request, response, rerun, workspace, memos>>

Search ==
    /\ ~request.done
    /\ \E args \in SearchArgs :
         \E out \in handleSearchFiles(tree, session, args) :
            /\ request' = [done |-> TRUE, args |-> args, resolved |-> out.resolved]
            /\ response' = [done |-> TRUE, results |-> out.results, result |-> out.result]
    /\ UNCHANGED <<call, tree, session, rerun, workspace, memos>>

SecondArgs(args) ==
    {args} \cup (IF args.SearchMode = "and" THEN {[args EXCEPT !.SearchMode = "or"]} ELSE {})

SearchAgain ==
    /\ request.done
    /\ ~rerun.done
    /\ ~response.result.IsError
    /\ \E args \in SecondArgs(request.args) :
         \E out \in handleSearchFiles(tree, session, args) :
            rerun' = [done |-> TRUE, args |-> args, resolved |-> out.resolved,
                      results |-> out.results, result |-> out.result]
    /\ UNCHANGED <<call, tree, session, request, response, workspace, memos>>

Init ==
    /\ call = NoCall
    /\ tree \in Trees
    /\ session = EmptySessionConfig
    /\ request = NoRequest
    /\ response = NoRequest
    /\ rerun = NoRequest
    /\ workspace = <<>>
    /\ memos = <<>>

Next == SessionSet \/ SessionClear \/ Search \/ SearchAgain

Spec == Init /\ [][Next]_vars

(***************************************************************************)
(* Properties of the search tool, checked under Spec.                      *)
(***************************************************************************)
Succeeded == response.done /\ ~response.result.IsError

RerunSucceeded == rerun.done /\ ~rerun.result.IsError

PathsOf(results) == {results[i].Path : i \in 1..Len(results)}

\* what the engine returns for the request when nothing is cut (maxResults = 0)
Untruncated(args, resolved) ==
    CHOOSE u \in SearchFiles(tree, args.Keywords, resolved.searchMode, args.IncludeFilename,
                             args.ContextLines, resolved.includePatterns,
                             resolved.excludePatterns, 0) : TRUE

NotCut(args, resolved) == Len(Untruncated(args, resolved)) <= resolved.limit

KeywordOccurs(lines, keyword) == \E i \in 1..Len(lines) : Contains(lines[i], keyword)

FilesWithAllKeywords(t, keywords) ==
    {TrackedFiles(t)[k].path : k \in
        {k \in 1..Len(TrackedFiles(t)) :
            \A i \in 1..Len(keywords) : KeywordOccurs(TrackedFiles(t)[k].lines, keywords[i])}}

\* C4 (as claimed): in AND mode the files reported by the content search are
\* exactly the files whose content holds every keyword of the request.
C4_AsClaimed ==
    (/\ Succeeded
     /\ request.resolved.searchMode = "and"
     /\ ~request.args.IncludeFilename
     /\ request.resolved.includePatterns = <<>>
     /\ request.resolved.excludePatterns = <<>>
     /\ NotCut(request.args, request.resolved))
        => PathsOf(response.results) = FilesWithAllKeywords(tree, request.args.Keywords)

AndThenOr ==
    /\ Succeeded
    /\ RerunSucceeded
    /\ request.args.SearchMode = "and"
    /\ rerun.args = [request.args EXCEPT !.SearchMode = "or"]
    /\ NotCut(request.args, request.resolved)
    /\ NotCut(rerun.args, rerun.resolved)

\* C5: on the same tree and keyword list, with neither result cut by the
\* limit, every file an AND search returns is returned by the OR search.
C5_OrContainsAnd == AndThenOr => PathsOf(response.results) \subseteq PathsOf(rerun.results)

\* an AND search of two keywords found a file and the OR search found more
C5_Witness ==
    /\ AndThenOr
    /\ Len(request.args.Keywords) = 2
    /\ PathsOf(response.results) # {}
    /\ PathsOf(response.results) # PathsOf(rerun.results)

\* C6 (as claimed): a search repeated with identical arguments on the
\* unchanged tree returns the same results in the same order.
C6_AsClaimed ==
    (Succeeded /\ RerunSucceeded /\ rerun.args = request.args)
        => /\ rerun.results = response.results
           /\ rerun.result = response.result

ReportsTruncation(text) == \E i \in 1..Len(text) : text[i].kind = "limited"

\* C8 (as claimed): whenever more paths match than the limit allows, the
\* search tells its caller that the result was truncated.
C8_AsClaimed ==
    (Succeeded /\ Len(Untruncated(request.args, request.resolved)) > request.resolved.limit)
        => ReportsTruncation(response.result.Text)

\* the content and filename hits of the request for one path
ContentHitsFor(path) ==
    LET c == CHOOSE c \in searchInContent(tree, request.args.Keywords,
                                          request.resolved.searchMode,
                                          request.args.ContextLines) : TRUE
    IN  SelectSeq(c, LAMBDA r : r.Path = path)

FilenameHitsFor(path) ==
    IF request.args.IncludeFilename
    THEN SelectSeq(searchInFilenames(tree, request.args.Keywords, request.resolved.searchMode),
                   LAMBDA r : r.Path = path)
    ELSE <<>>

IsFilenameMarker(m, path) == m.LineNumber = 0 /\ m.Content = Base(path)

\* C9: every path occurs at most once in the results; a path with a content
\* hit and a filename hit is one result of type "both" holding the content
\* lines followed by the filename marker (line number 0).
C9_MergedOnce ==
    Succeeded =>
        /\ \A i, j \in 1..Len(response.results) :
              response.results[i].Path = response.results[j].Path => i = j
        /\ \A i \in 1..Len(response.results) :
              LET r == response.results[i]
                  c == ContentHitsFor(r.Path)
                  f == FilenameHitsFor(r.Path)
              IN  /\ Len(c) <= 1 /\ Len(f) <= 1 /\ Len(c) + Len(f) >= 1
                  /\ (c # <<>> /\ f # <<>>) =>
                        /\ r.MatchType = "both"
                        /\ r.Matches = c[1].Matches \o f[1].Matches
                        /\ IsFilenameMarker(r.Matches[Len(r.Matches)], r.Path)
                        /\ \A k \in 1..(Len(r.Matches) - 1) : r.Matches[k].LineNumber > 0
                  /\ (c # <<>> /\ f = <<>>) => r = c[1] /\ r.MatchType = "content"
                  /\ (c = <<>> /\ f # <<>>) => r = f[1] /\ r.MatchType = "filename"

\* a file whose name and whose content both hold the keyword was returned
C9_Witness ==
    /\ Succeeded
    /\ \E i \in 1..Len(response.results) :
          /\ response.results[i].MatchType = "both"
          /\ Len(response.results[i].Matches) >= 2

AnyMatches(filePath, patterns) ==
    \E i \in 1..Len(patterns) : matchesPattern(filePath, patterns[i])

\* the path passes the include and exclude patterns in force
PassesPatterns(path, resolved) ==
    /\ ~(resolved.excludePatterns # <<>> /\ AnyMatches(path, resolved.excludePatterns))
    /\ resolved.includePatterns = <<>> \/ AnyMatches(path, resolved.includePatterns)

\* what the same search returns without patterns and without a limit
Unfiltered(args, resolved) ==
    CHOOSE u \in SearchFiles(tree, args.Keywords, resolved.searchMode, args.IncludeFilename,
                             args.ContextLines, <<>>, <<>>, 0) : TRUE

InitMatch ==
    /\ call \in {PathInput(p) : p \in Paths}
    /\ tree = <<>>
    /\ session = <<>>
    /\ request = <<>>
    /\ response = <<>>
    /\ rerun = <<>>
    /\ workspace = <<>>
    /\ memos = <<>>

NextMatch == CallMatchesPattern \/ CallShouldIncludeFile

SpecMatch == InitMatch /\ [][NextMatch]_vars

(***************************************************************************)
(* Properties of the pattern matcher, checked under SpecMatch.             *)
(***************************************************************************)
\* d is p itself or an ancestor directory of p, compared segment by segment
SegmentPrefix(d, p) ==
    LET ds == Split(d, Slash)
        ps == Split(p, Slash)
    IN  Len(ds) <= Len(ps) /\ SubSeq(ps, 1, Len(ds)) = ds

IsLiteral(s) == \A i \in 1..Len(s) : s[i] \notin {"*", "?"}

MatchCall == call.fn = "matchesPattern"

\* C1 (as claimed): for EVERY pattern ending in '/', the pattern matches a
\* path exactly when the path is the pattern without its trailing slash or a
\* segment-bounded descendant of it.
C1_AsClaimed ==
    (MatchCall /\ HasSuffix(call.pattern, Slash))
        => (call.result <=> SegmentPrefix(TrimSuffix(call.pattern, Slash), call.filePath))

\* C1 (amended): for every pattern ending in '/' that contains no "**", and
\* every clean relative path, the pattern matches exactly when the path is
\* the pattern without its trailing slash or a segment-bounded descendant.
C1_DirectoryPattern ==
    (MatchCall /\ HasSuffix(call.pattern, Slash) /\ ~Contains(call.pattern, StarStar))
        => (call.result <=> SegmentPrefix(TrimSuffix(call.pattern, Slash), call.filePath))

\* a directory pattern matched a proper descendant of its directory
C1_Witness ==
    /\ MatchCall
    /\ call.pattern = <<"v", "/">>
    /\ call.filePath = <<"v", "/", "v", "w", "/", "w">>
    /\ call.result

\* the literal prefix X of a recursive pattern X/** or X/**/suffix
HasLiteralPrefix(pattern) ==
    LET parts == Split(pattern, StarStar)
    IN  /\ Len(parts) >= 2
        /\ HasSuffix(parts[1], Slash)
        /\ TrimSuffix(parts[1], Slash) # <<>>
        /\ IsLiteral(parts[1])

LiteralPrefix(pattern) == TrimSuffix(Split(pattern, StarStar)[1], Slash)

\* C2: a recursive pattern with a literal prefix X before "**" matches no
\* path whose leading segments are not exactly X.
C2_RecursivePrefixBoundary ==
    (MatchCall /\ HasLiteralPrefix(call.pattern) /\ call.result)
        => SegmentPrefix(LiteralPrefix(call.pattern), call.filePath)

\* vendor/** was tried on a path under vendor2/ and did not match
C2_Witness ==
    /\ MatchCall
    /\ call.pattern \in {<<"v", "/", "*", "*">>, <<"v", "/", "*", "*", "/", "*", "w">>}
    /\ HasPrefix(call.filePath, <<"v", "w", "/">>)
    /\ ~call.result

\* C3: shouldIncludeFile is false whenever the exclude list is non-empty and
\* one of its patterns matches; otherwise it is true exactly when the include
\* list is empty or one of its patterns matches.
C3_ExcludeWins ==
    call.fn = "shouldIncludeFile"
        => call.result =
              IF call.excludePatterns # <<>> /\ AnyMatches(call.filePath, call.excludePatterns)
              THEN FALSE
              ELSE call.includePatterns = <<>>
                   \/ AnyMatches(call.filePath, call.includePatterns)

\* a path matched by an include pattern and by an exclude pattern was refused
C3_Witness ==
    /\ call.fn = "shouldIncludeFile"
    /\ AnyMatches(call.filePath, call.includePatterns)
    /\ AnyMatches(call.filePath, call.excludePatterns)
    /\ ~call.result

(***************************************************************************)
(* ListFiles (git_operations.go).  The working tree is the sequence of its *)
(* file paths in the order in which filepath.WalkDir visits them (entries  *)
(* of a directory in byte order of their names).                           *)
(***************************************************************************)
Dot == <<".">>

DotGit == <<".", "g", "i", "t">>

shouldSkipDirectory(dirPath, excludePatterns) ==
    \E i \in 1..Len(excludePatterns) :
        LET pattern == excludePatterns[i]
        IN  \/ /\ HasSuffix(pattern, Slash)
               /\ LET dirPattern == TrimSuffix(pattern, Slash)
                  IN  dirPath = dirPattern \/ HasPrefix(dirPath, dirPattern \o Slash)
            \/ /\ HasSuffix(pattern, Slash \o StarStar)
               /\ LET dirPattern == TrimSuffix(pattern, Slash \o StarStar)
                  IN  dirPath = dirPattern \/ HasPrefix(dirPath, dirPattern \o Slash)
            \/ /\ ~Contains(pattern, <<"*">>) /\ ~Contains(pattern, Slash)
               /\ dirPath = pattern \/ HasPrefix(dirPath, pattern \o Slash)
            \/ /\ HasSuffix(pattern, <<"/", "*">>)
               /\ dirPath = TrimSuffix(pattern, <<"/", "*">>)

FileInfo(path) == [Name |-> Base(path), Path |-> path]

\* the directories above a file, as paths relative to the repository
DirsOf(path) ==
    LET segs == Split(path, Slash)
    IN  {Join(SubSeq(segs, 1, i), Slash) : i \in 1..(Len(segs) - 1)}

\* the file lies in the directory dirPath or beneath it ("" is the repository)
Under(dirPath, path) == dirPath = <<>> \/ HasPrefix(path, dirPath \o Slash)

\* the directories the walk from dirPath enters on its way to the file; the
\* root of a walk of the whole repository has the relative path "."
WalkedDirs(dirPath, path) ==
    IF dirPath = <<>> THEN {Dot} \cup DirsOf(path)
    ELSE {d \in DirsOf(path) : d = dirPath \/ HasPrefix(d, dirPath \o Slash)}

\* the walk returns fs.SkipDir for a directory on the way to the file
SkippedByWalk(dirPath, path, excludePatterns) ==
    \E d \in WalkedDirs(dirPath, path) :
        Base(d) = DotGit \/ shouldSkipDirectory(d, excludePatterns)

RECURSIVE walkDir(_, _, _, _, _, _)
\* the callback of filepath.WalkDir applied to the files in walk order
walkDir(paths, dirPath, includePatterns, excludePatterns, maxResults, files) ==
    IF paths = <<>> THEN files
    ELSE LET relPath == Head(paths)
         IN  IF \/ ~Under(dirPath, relPath)
                \/ SkippedByWalk(dirPath, relPath, excludePatterns)
                \/ ~shouldIncludeFile(relPath, includePatterns, excludePatterns)
             THEN walkDir(Tail(paths), dirPath, includePatterns, excludePatterns,
                          maxResults, files)
             ELSE LET added == Append(files, FileInfo(relPath))
                  IN  IF maxResults > 0 /\ Len(added) >= maxResults
                      THEN added
                      ELSE walkDir(Tail(paths), dirPath, includePatterns, excludePatterns,
                                   maxResults, added)

\* the files directly in dirPath, as os.ReadDir returns them
DirectFiles(paths, dirPath) ==
    SelectSeq(paths, LAMBDA p :
        /\ Under(dirPath, p)
        /\ ~Contains(IF dirPath = <<>> THEN p ELSE TrimPrefix(p, dirPath \o Slash), Slash))

\* dirPath is an existing directory of the working tree
DirExists(paths, dirPath) ==
    dirPath = <<>> \/ \E i \in 1..Len(paths) : dirPath \in DirsOf(paths[i])

\* a plausible slip: the loop stops one entry late
readDirLoop_offByOne(entries, includePatterns, excludePatterns, maxResults) ==
    LET kept == SelectSeq(entries, LAMBDA p : shouldIncludeFile(p, includePatterns, excludePatterns))
        files == [i \in 1..Len(kept) |-> FileInfo(kept[i])]
    IN  IF maxResults > 0 /\ Len(files) > maxResults + 1
        THEN SubSeq(files, 1, maxResults + 1)
        ELSE files

\* the loop over the entries of os.ReadDir
readDirLoop(entries, includePatterns, excludePatterns, maxResults) ==
    LET kept == SelectSeq(entries, LAMBDA p : shouldIncludeFile(p, includePatterns, excludePatterns))
        files == [i \in 1..Len(kept) |-> FileInfo(kept[i])]
    IN  IF maxResults > 0 /\ Len(files) > maxResults
        THEN SubSeq(files, 1, maxResults)
        ELSE files

\* the result [err, files] of a call whose repoPath is a valid repository
ListFiles(paths, dirPath, recursive, includePatterns, excludePatterns, maxResults) ==
    IF recursive
    THEN [err |-> FALSE,
          files |-> IF DirExists(paths, dirPath)
                    THEN walkDir(paths, dirPath, includePatterns, excludePatterns,
                                 maxResults, <<>>)
                    ELSE <<>>]
    ELSE IF ~DirExists(paths, dirPath)
    THEN [err |-> TRUE, files |-> <<>>]
    ELSE [err |-> FALSE,
          files |-> readDirLoop(DirectFiles(paths, dirPath), includePatterns,
                                excludePatterns, maxResults)]

(***************************************************************************)
(* Inputs and calls of ListFiles: a behaviour is one call on a tree drawn  *)
(* in the initial state.                                                   *)
(***************************************************************************)
\* candidate files in walk order
ListCandidates ==
    << DotGit \o <<"/", "w">>,
       <<"v", "/", "v">>,
       <<"v", "/", "v", "w", "/", "w">>,
       <<"v", "/", "w">>,
       <<"v", "w", "/", "v">>,
       <<"w">> >>

\* the working trees: the sub-sequences of the candidates
ListTrees ==
    {SelectSeq(ListCandidates, LAMBDA p : p \in S) :
        S \in SUBSET {ListCandidates[i] : i \in 1..Len(ListCandidates)}}

\* exclude patterns that name the directory v in the four forms the walk knows
PrunePatterns == {<<"v">>, <<"v", "/">>, <<"v", "/", "*", "*">>, <<"v", "/", "*">>}

PruneLists == {<<>>} \cup SeqsUpTo(PrunePatterns, MaxPatterns)

ListDirs == {<<>>, <<"v">>, <<"w", "w">>, DotGit}

ListInput(paths) == [fn |-> "listInput", paths |-> paths]

CallListFiles ==
    /\ call.fn = "listInput"
    /\ \E dirPath \in ListDirs, recursive \in BOOLEAN,
          includePatterns \in {<<>>, << <<"w">> >>}, excludePatterns \in PruneLists,
          maxResults \in 0..MaxLimit :
        LET out == ListFiles(call.paths, dirPath, recursive, includePatterns,
                             excludePatterns, maxResults)
        IN  call' = [fn |-> "ListFiles", paths |-> call.paths, dirPath |-> dirPath,
                     recursive |-> recursive, includePatterns |-> includePatterns,
                     excludePatterns |-> excludePatterns, maxResults |-> maxResults,
                     err |-> out.err, files |-> out.files]
    /\ UNCHANGED <<tree, session, request, response, rerun, workspace, memos>>

InitList ==
    /\ call \in {ListInput(paths) : paths \in ListTrees}
    /\ tree = <<>>
    /\ session = <<>>
    /\ request = <<>>
    /\ response = <<>>
    /\ rerun = <<>>
    /\ workspace = <<>>
    /\ memos = <<>>

NextList == CallListFiles

SpecList == InitList /\ [][NextList]_vars

(***************************************************************************)
(* Properties of ListFiles, checked under SpecList.                        *)
(***************************************************************************)
ListCall == call.fn = "ListFiles"

\* the files of the tree beneath dirPath and outside .git that pass the
\* per-file filter, in walk order
FilteredWithoutPruning(paths, dirPath, includePatterns, excludePatterns) ==
    SelectSeq(paths, LAMBDA p :
        /\ Under(dirPath, p)
        /\ \A d \in DirsOf(p) : Base(d) # DotGit
        /\ shouldIncludeFile(p, includePatterns, excludePatterns))

\* C11 (as claimed): a recursive listing with pruning returns exactly the
\* files that filtering every file individually would return.
C11_AsClaimed ==
    (ListCall /\ call.recursive /\ call.maxResults = 0) =>
        [i \in 1..Len(call.files) |-> call.files[i].Path]
            = FilteredWithoutPruning(call.paths, call.dirPath, call.includePatterns,
                                     call.excludePatterns)

\* the same call without a limit
Unlimited ==
    ListFiles(call.paths, call.dirPath, call.recursive, call.includePatterns,
              call.excludePatterns, 0).files

\* C23: with a positive limit L, ListFiles returns the first L of the
\* files it returns without a limit, or all of them when they are fewer.
C23_LimitExact ==
    (ListCall /\ call.maxResults > 0 /\ ~call.err) =>
        /\ Len(call.files) <= call.maxResults
        /\ Len(Unlimited) >= call.maxResults => Len(call.files) = call.maxResults
        /\ Len(Unlimited) < call.maxResults => Len(call.files) = Len(Unlimited)
        /\ call.files = SubSeq(Unlimited, 1, Len(call.files))

\* a directory listed with a limit one below the number of its files
C23_Witness ==
    /\ ListCall
    /\ ~call.recursive
    /\ call.maxResults > 0
    /\ Len(Unlimited) = call.maxResults + 1
    /\ Len(call.files) = call.maxResults

\* C26 (as claimed): no listing, for any directory argument and any
\* patterns, returns a path with .git as a directory segment.
C26_AsClaimed ==
    ListCall =>
        \A i \in 1..Len(call.files) :
            \A d \in DirsOf(call.files[i].Path) : Base(d) # DotGit

LinesOf(path) ==
    LET k == CHOOSE k \in 1..Len(TrackedFiles(tree)) : TrackedFiles(tree)[k].path = path
    IN  TrackedFiles(tree)[k].lines

\* the numbers of the lines of the file that contain any of the keywords
LinesWithAnyKeyword(path, keywords) ==
    {n \in 1..Len(LinesOf(path)) :
        \E i \in 1..Len(keywords) : Contains(LinesOf(path)[n], keywords[i])}

\* the line numbers of the content match entries of a result
ContentLineNumbers(r) ==
    {r.Matches[k].LineNumber : k \in {k \in 1..Len(r.Matches) : r.Matches[k].LineNumber > 0}}

PlainContentSearch ==
    /\ Succeeded
    /\ ~request.args.IncludeFilename
    /\ request.args.ContextLines = 0

\* C13 (as claimed): in AND mode with several keywords the match lines of a
\* returned file are all lines of the file that contain any of the keywords.
C13_AsClaimed ==
    (PlainContentSearch /\ request.resolved.searchMode = "and"
        /\ Len(request.args.Keywords) >= 2)
        => \A i \in 1..Len(response.results) :
              ContentLineNumbers(response.results[i])
                  = LinesWithAnyKeyword(response.results[i].Path, request.args.Keywords)

\* C14 (as claimed): in OR mode, for pairwise different keywords, the match
\* lines of a returned file are the lines that contain any of the keywords,
\* each recorded exactly once.
C14_AsClaimed ==
    (/\ PlainContentSearch
     /\ request.resolved.searchMode = "or"
     /\ \A a, b \in 1..Len(request.args.Keywords) :
           request.args.Keywords[a] = request.args.Keywords[b] => a = b)
        => \A i \in 1..Len(response.results) :
              LET r == response.results[i]
              IN  /\ ContentLineNumbers(r) = LinesWithAnyKeyword(r.Path, request.args.Keywords)
                  /\ \A j, k \in 1..Len(r.Matches) :
                        r.Matches[j].LineNumber = r.Matches[k].LineNumber => j = k

\* the lines up to n before and after line number ln of the file
NeighbourLines(path, ln, n) ==
    LET lines == LinesOf(path)
        lo == IF ln - n < 1 THEN 1 ELSE ln - n
        hi == IF ln + n > Len(lines) THEN Len(lines) ELSE ln + n
    IN  SubSeq(lines, lo, ln - 1) \o SubSeq(lines, ln + 1, hi)

\* C15 (as claimed): with context lines requested every match entry is a
\* line that contains a keyword and carries its neighbouring lines as context.
C15_AsClaimed ==
    (Succeeded /\ request.args.ContextLines > 0 /\ ~request.args.IncludeFilename)
        => \A i \in 1..Len(response.results) :
              LET r == response.results[i]
              IN  \A k \in 1..Len(r.Matches) :
                    /\ r.Matches[k].LineNumber \in LinesWithAnyKeyword(r.Path, request.args.Keywords)
                    /\ r.Matches[k].Context
                          = NeighbourLines(r.Path, r.Matches[k].LineNumber,
                                           request.args.ContextLines)

(***************************************************************************)
(* Go's path/filepath on character strings (Unix separators).              *)
(***************************************************************************)
DotDot == <<".", ".">>

IsAbs(path) == HasPrefix(path, Slash)

RECURSIVE CleanSegments(_, _, _)
\* the elements of a path after "." and empty elements are dropped and ".."
\* has eaten the element before it (".." above the root of a rooted path goes)
CleanSegments(segs, rooted, out) ==
    IF segs = <<>> THEN out
    ELSE LET seg == Head(segs)
         IN  IF seg = <<>> \/ seg = Dot THEN CleanSegments(Tail(segs), rooted, out)
             ELSE IF seg = DotDot
             THEN IF out # <<>> /\ out[Len(out)] # DotDot
                  THEN CleanSegments(Tail(segs), rooted, SubSeq(out, 1, Len(out) - 1))
                  ELSE IF rooted THEN CleanSegments(Tail(segs), rooted, out)
                  ELSE CleanSegments(Tail(segs), rooted, Append(out, seg))
             ELSE CleanSegments(Tail(segs), rooted, Append(out, seg))

\* filepath.Clean
Clean(path) ==
    LET out == CleanSegments(Split(path, Slash), IsAbs(path), <<>>)
    IN  IF IsAbs(path) THEN Slash \o Join(out, Slash)
        ELSE IF out = <<>> THEN Dot
        ELSE Join(out, Slash)

\* filepath.Join of two elements
JoinPath(a, b) ==
    IF a = <<>> /\ b = <<>> THEN <<>>
    ELSE IF a = <<>> THEN Clean(b)
    ELSE IF b = <<>> THEN Clean(a)
    ELSE Clean(a \o Slash \o b)

\* filepath.Abs; every path the code passes to it is rooted
Abs(path) == Clean(path)

RECURSIVE CommonPrefixLen(_, _)
CommonPrefixLen(a, b) ==
    IF a = <<>> \/ b = <<>> \/ Head(a) # Head(b) THEN 0
    ELSE 1 + CommonPrefixLen(Tail(a), Tail(b))

\* filepath.Rel of two rooted paths
Rel(basepath, targpath) ==
    LET b == CleanSegments(Split(basepath, Slash), TRUE, <<>>)
        t == CleanSegments(Split(targpath, Slash), TRUE, <<>>)
        k == CommonPrefixLen(b, t)
        segs == [i \in 1..(Len(b) - k) |-> DotDot] \o SubSeq(t, k + 1, Len(t))
    IN  IF segs = <<>> THEN Dot ELSE Join(segs, Slash)

(***************************************************************************)
(* The workspace manager (part_004) and the operations that take paths.    *)
(***************************************************************************)
\* globalWorkspaceManager == nil
NoWorkspaceManager == [initialized |-> FALSE, workspaceDir |-> <<>>]

WorkspaceDir == <<"/", "w">>

NewWorkspaceManager(workspaceDir) == [initialized |-> TRUE, workspaceDir |-> Abs(workspaceDir)]

\* a plausible slip: the workspace directory is compared as a string prefix
isWithinWorkspace_stringPrefix(wm, path) == HasPrefix(Abs(path), Abs(wm.workspaceDir))

isWithinWorkspace(wm, path) ==
    LET rel == Rel(Abs(wm.workspaceDir), Abs(path))
    IN  ~HasPrefix(rel, DotDot) /\ rel # DotDot

\* [err, kind, path]
ValidateRepositoryPath(wm, path) ==
    IF path = <<>> THEN [err |-> TRUE, kind |-> "empty path", path |-> <<>>]
    ELSE LET fullPath == IF ~IsAbs(path) THEN JoinPath(wm.workspaceDir, path) ELSE path
             absPath == Abs(fullPath)
         IN  IF ~isWithinWorkspace(wm, absPath)
             THEN [err |-> TRUE, kind |-> "outside workspace", path |-> <<>>]
             ELSE [err |-> FALSE, kind |-> "", path |-> absPath]

ValidateWorkspacePath(wm, path) ==
    IF ~wm.initialized THEN [err |-> TRUE, kind |-> "workspace not initialized", path |-> <<>>]
    ELSE ValidateRepositoryPath(wm, path)

GetRepositoryPath(wm, repoName) == JoinPath(wm.workspaceDir, repoName)

\* fs is the set of directories on disk that hold a .git directory
RepositoryExists(wm, fs, repoName) == GetRepositoryPath(wm, repoName) \in fs

\* what an operation read, listed, created or removed on disk (the test
\* whether a directory holds a repository is not counted)
Touch(kind, path) == [kind |-> kind, path |-> path]

\* the operations that start by validating their repository path
RepositoryOperations ==
    {"GetRepositoryInfo", "ListBranches", "SwitchBranch", "SearchFiles", "ListFiles",
     "GetFileContent", "PullRepository", "ListCommits", "GetCommitDiff"}

\* the outcome [err, kind, touched, fs] of a repository operation: after the
\* validation it reads the repository at the validated path
RepositoryOperation(wm, fs, op, repoPath) ==
    LET v == ValidateWorkspacePath(wm, repoPath)
    IN  IF v.err THEN [err |-> TRUE, kind |-> v.kind, touched |-> {}, fs |-> fs]
        ELSE IF op \notin {"ListFiles", "GetFileContent"} /\ v.path \notin fs
        THEN [err |-> TRUE, kind |-> "not a git repository",
              touched |-> {Touch("read", v.path)}, fs |-> fs]
        ELSE [err |-> FALSE, kind |-> "", touched |-> {Touch("read", v.path)}, fs |-> fs]

\* GetFileContent: the file opened is filepath.Join(repoPath, filePath)
OpenFileIn(wm, fs, repoPath, filePath) ==
    LET v == ValidateWorkspacePath(wm, repoPath)
    IN  IF v.err THEN [err |-> TRUE, kind |-> v.kind, touched |-> {}, fs |-> fs]
        ELSE [err |-> FALSE, kind |-> "",
              touched |-> {Touch("read", JoinPath(v.path, filePath))}, fs |-> fs]

\* ListFiles: the directory walked or read is filepath.Join(repoPath, dirPath)
ListDirectoryIn(wm, fs, repoPath, dirPath) ==
    LET v == ValidateWorkspacePath(wm, repoPath)
    IN  IF v.err THEN [err |-> TRUE, kind |-> v.kind, touched |-> {}, fs |-> fs]
        ELSE [err |-> FALSE, kind |-> "",
              touched |-> {Touch("list", JoinPath(v.path, dirPath))}, fs |-> fs]

\* handleRemoveRepository and WorkspaceManager.RemoveRepository
RemoveRepository(wm, fs, repoName) ==
    IF repoName = <<>>
    THEN [err |-> TRUE, kind |-> "repository name is required", touched |-> {}, fs |-> fs]
    ELSE IF ~wm.initialized
    THEN [err |-> TRUE, kind |-> "workspace not initialized", touched |-> {}, fs |-> fs]
    ELSE IF ~RepositoryExists(wm, fs, repoName)
    THEN [err |-> TRUE, kind |-> "does not exist", touched |-> {}, fs |-> fs]
    ELSE [err |-> FALSE, kind |-> "",
          touched |-> {Touch("remove", GetRepositoryPath(wm, repoName))},
          fs |-> fs \ {GetRepositoryPath(wm, repoName)}]

\* the directories on disk that hold something but no .git directory
OtherDirectories == {Slash, WorkspaceDir}

\* a plausible slip: git clone is run although the repository exists
CloneRepository_noExistsCheck(wm, fs, repoName) ==
    IF ~wm.initialized
    THEN [err |-> TRUE, kind |-> "workspace not initialized", touched |-> {}, fs |-> fs]
    ELSE [err |-> FALSE, kind |-> "",
          touched |-> {Touch("create", GetRepositoryPath(wm, repoName))},
          fs |-> fs \cup {GetRepositoryPath(wm, repoName)}]

\* CloneRepository with a repository name given; git clone refuses a target
\* directory that exists and is not empty
CloneRepository(wm, fs, repoName) ==
    IF ~wm.initialized
    THEN [err |-> TRUE, kind |-> "workspace not initialized", touched |-> {}, fs |-> fs]
    ELSE IF RepositoryExists(wm, fs, repoName)
    THEN [err |-> TRUE, kind |-> "already exists", touched |-> {}, fs |-> fs]
    ELSE IF GetRepositoryPath(wm, repoName) \in OtherDirectories
    THEN [err |-> TRUE, kind |-> "git clone failed", touched |-> {}, fs |-> fs]
    ELSE [err |-> FALSE, kind |-> "",
          touched |-> {Touch("create", GetRepositoryPath(wm, repoName))},
          fs |-> fs \cup {GetRepositoryPath(wm, repoName)}]

\* PullRepository; gitPull is whether the git pull command succeeds
PullRepository(wm, fs, repoPath, gitPull) ==
    LET v == ValidateWorkspacePath(wm, repoPath)
    IN  IF v.err THEN [err |-> TRUE, kind |-> v.kind, touched |-> {}, fs |-> fs]
        ELSE IF v.path \notin fs
        THEN [err |-> TRUE, kind |-> "not a git repository", touched |-> {}, fs |-> fs]
        ELSE [err |-> ~gitPull, kind |-> IF gitPull THEN "" ELSE "git pull failed",
              touched |-> {Touch("pull", v.path)}, fs |-> fs]

\* the result of handleCloneRepository from the outcome c of
\* CloneRepository and the outcome p of PullRepository: [err, kind,
\* touched, fs, cloned, pulled]; err is the IsError of the result
cloneOrPull(c, p) ==
    IF c.err /\ c.kind = "already exists"
    THEN [err |-> p.err,
          kind |-> IF p.err THEN "already exists but pull failed"
                   ELSE "already exists. Pulled latest",
          touched |-> c.touched \cup p.touched, fs |-> p.fs,
          cloned |-> FALSE, pulled |-> ~p.err]
    ELSE IF c.err
    THEN [err |-> TRUE, kind |-> "Clone failed", touched |-> c.touched, fs |-> c.fs,
          cloned |-> FALSE, pulled |-> FALSE]
    ELSE [err |-> FALSE, kind |-> "Cloned", touched |-> c.touched, fs |-> c.fs,
          cloned |-> TRUE, pulled |-> FALSE]

\* handleCloneRepository with a URL and a name
handleCloneRepository(wm, fs, repoName, gitPull) ==
    cloneOrPull(CloneRepository(wm, fs, repoName), PullRepository(wm, fs, repoName, gitPull))

(***************************************************************************)
(* Inputs and calls of the workspace operations: the path argument is      *)
(* drawn in the initial state; a behaviour initialises the workspace or    *)
(* not and makes one call.                                                 *)
(***************************************************************************)
\* elements of a path argument
MaxWsSegs == 3

\* r is the repository in the workspace, wo a repository next to the
\* workspace directory w, ..r a name that begins with two dots
WsSegments == {<<"r">>, DotDot, <<".", ".", "r">>, Dot, <<"w", "o">>, <<"w">>}

WsPathInputs ==
    LET rel == {Join(segs, Slash) : segs \in SeqsUpTo(WsSegments, MaxWsSegs)}
    IN  {<<>>} \cup rel \cup {Slash \o p : p \in rel}

\* the git repositories on disk
InitialRepositories == {<<"/", "w", "/", "r">>, <<"/", "w", "o">>}

WsInput(p) == [fn |-> "wsInput", path |-> p]

WsOutcome(fn, op, out) ==
    [fn |-> fn, op |-> op, path |-> call.path, err |-> out.err, kind |-> out.kind,
     touched |-> out.touched]

InitializeWorkspace ==
    /\ call.fn = "wsInput"
    /\ ~workspace.initialized
    /\ workspace' = NewWorkspaceManager(WorkspaceDir)
    /\ UNCHANGED <<call, tree, session, request, response, rerun, memos>>

CallValidateRepositoryPath ==
    /\ call.fn = "wsInput"
    /\ workspace.initialized
    /\ LET v == ValidateRepositoryPath(workspace, call.path)
       IN  call' = [fn |-> "ValidateRepositoryPath", path |-> call.path, err |-> v.err,
                    kind |-> v.kind, result |-> v.path]
    /\ UNCHANGED <<tree, session, request, response, rerun, workspace, memos>>

CallRepositoryOperation ==
    /\ call.fn = "wsInput"
    /\ \E op \in RepositoryOperations :
          call' = WsOutcome("RepositoryOperation", op,
                            RepositoryOperation(workspace, tree, op, call.path))
    /\ UNCHANGED <<tree, session, request, response, rerun, workspace, memos>>

CallGetFileContent ==
    /\ call.fn = "wsInput"
    /\ call' = WsOutcome("GetFileContent", "GetFileContent",
                         OpenFileIn(workspace, tree, <<"r">>, call.path))
    /\ UNCHANGED <<tree, session, request, response, rerun, workspace, memos>>

CallListDirectory ==
    /\ call.fn = "wsInput"
    /\ call' = WsOutcome("ListFiles", "ListFiles",
                         ListDirectoryIn(workspace, tree, <<"r">>, call.path))
    /\ UNCHANGED <<tree, session, request, response, rerun, workspace, memos>>

CallRemoveRepository ==
    /\ call.fn = "wsInput"
    /\ LET out == RemoveRepository(workspace, tree, call.path)
       IN  /\ call' = WsOutcome("RemoveRepository", "RemoveRepository", out)
           /\ tree' = out.fs
    /\ UNCHANGED <<session, request, response, rerun, workspace, memos>>

CallCloneRepository ==
    /\ call.fn = "wsInput"
    /\ call.path # <<>>
    /\ LET out == CloneRepository(workspace, tree, call.path)
       IN  /\ call' = WsOutcome("CloneRepository", "CloneRepository", out)
           /\ tree' = out.fs
    /\ UNCHANGED <<session, request, response, rerun, workspace, memos>>

\* the call has returned out
CloneReturned(out, gitPull) ==
    /\ call' = [fn |-> "handleCloneRepository", op |-> "handleCloneRepository",
                path |-> call.path, err |-> out.err, kind |-> out.kind,
                touched |-> out.touched, cloned |-> out.cloned, pulled |-> out.pulled,
                gitPull |-> gitPull]
    /\ tree' = out.fs

CallHandleCloneRepository ==
    /\ call.fn = "wsInput"
    /\ call.path # <<>>
    /\ \E gitPull \in BOOLEAN :
          CloneReturned(handleCloneRepository(workspace, tree, call.path, gitPull), gitPull)
    /\ UNCHANGED <<session, request, response, rerun, workspace, memos>>

InitWs ==
    /\ call \in {WsInput(p) : p \in WsPathInputs}
    /\ tree = InitialRepositories
    /\ workspace = NoWorkspaceManager
    /\ session = <<>>
    /\ request = <<>>
    /\ response = <<>>
    /\ rerun = <<>>
    /\ memos = <<>>

NextWs ==
    \/ InitializeWorkspace
    \/ CallValidateRepositoryPath
    \/ CallRepositoryOperation
    \/ CallGetFileContent
    \/ CallListDirectory
    \/ CallRemoveRepository
    \/ CallCloneRepository
    \/ CallHandleCloneRepository

SpecWs == InitWs /\ [][NextWs]_vars

(***************************************************************************)
(* Properties of the workspace operations, checked under SpecWs.           *)
(***************************************************************************)
\* the path is the workspace directory or lies beneath it
InWorkspace(path) == SegmentPrefix(WorkspaceDir, path)

\* the path argument resolved against the workspace when it is relative
Resolved(path) == IF IsAbs(path) THEN Clean(path) ELSE Clean(WorkspaceDir \o Slash \o path)

\* C16 (as claimed): no tool call reads, lists, creates or removes a file
\* or directory outside the workspace directory.
C16_AsClaimed ==
    call.fn \in {"RepositoryOperation", "GetFileContent", "ListFiles", "RemoveRepository",
                 "CloneRepository"}
        => \A t \in call.touched : InWorkspace(t.path)

\* C17 (as claimed): ValidateRepositoryPath(p) for a non-empty p succeeds
\* if and only if p, resolved against the workspace when relative, is the
\* workspace directory or lies beneath it, and then returns that absolute
\* path.
C17_AsClaimed ==
    (call.fn = "ValidateRepositoryPath" /\ call.path # <<>>) =>
        /\ ~call.err <=> InWorkspace(Resolved(call.path))
        /\ ~call.err => call.result = Resolved(call.path)

\* C18: a repository operation called with a path that resolves outside
\* the workspace, or while the workspace is not initialised, returns a
\* workspace validation error and touches nothing on disk.
C18_ValidationFirst ==
    (/\ call.fn = "RepositoryOperation"
     /\ ~workspace.initialized \/ ~InWorkspace(Resolved(call.path)))
        => /\ call.err
           /\ call.kind \in {"workspace not initialized", "outside workspace", "empty path"}
           /\ call.touched = {}
           /\ tree = InitialRepositories

\* an operation on the repository next to the workspace was refused
C18_Witness ==
    /\ call.fn = "RepositoryOperation"
    /\ workspace.initialized
    /\ Resolved(call.path) = <<"/", "w", "o">>
    /\ call.err
    /\ call.kind = "outside workspace"

\* the clone tool was called, in an initialised workspace, with a name
\* whose repository exists in the workspace
CloneOfExisting ==
    /\ call.fn = "handleCloneRepository"
    /\ workspace.initialized
    /\ GetRepositoryPath(workspace, call.path) \in InitialRepositories
    /\ InWorkspace(GetRepositoryPath(workspace, call.path))

\* C27 (as claimed): the clone tool called for a repository name that
\* exists in the workspace does not fail and does not clone again: nothing
\* is created, the repository is pulled, the result is a success, and the
\* workspace holds the same repositories as before.
C27_AsClaimed ==
    CloneOfExisting =>
        /\ ~call.err
        /\ ~call.cloned
        /\ call.pulled
        /\ \A t \in call.touched : t.kind = "pull"
        /\ tree = InitialRepositories

\* PullRepository takes the name as a repository path: the pull succeeds
\* when the name validates as a path and git pull succeeds
PullSucceeds == call.gitPull /\ ~ValidateWorkspacePath(workspace, call.path).err

\* C27 (amended): the clone tool called for a repository name that exists
\* in the workspace does not clone again: nothing is created or removed,
\* nothing but the existing repository is pulled and the workspace holds
\* the same repositories as before; the result is a success when the pull
\* succeeds and the tool error 'already exists but pull failed' when it
\* does not.
C27_PullsExisting ==
    CloneOfExisting =>
        /\ ~call.cloned
        /\ call.touched \subseteq {Touch("pull", GetRepositoryPath(workspace, call.path))}
        /\ tree = InitialRepositories
        /\ call.err <=> ~PullSucceeds
        /\ call.pulled <=> PullSucceeds
        /\ call.err => call.kind = "already exists but pull failed"

\* the existing repository was named by a longer path than its name, and
\* the pull succeeded
C27_Witness ==
    /\ CloneOfExisting
    /\ call.path # <<"r">>
    /\ call.pulled
    /\ ~call.err

(***************************************************************************)
(* The memo store (mcp_tools_memo.go): memos in memory, memos.json on      *)
(* disk, and the goroutines that call the store.                           *)
(***************************************************************************)
\* goroutines that call the store
MaxThreads == 2

\* operations on the store in one behaviour
MaxMemoOps == 4

Threads == 1..MaxThreads

Quote == "\""

Backslash == "\\"

\* a nil slice of tags, as distinct from an empty one
NilTags == [isNil |-> TRUE, elems |-> <<>>]

TagList(elems) == [isNil |-> FALSE, elems |-> elems]

MemoArgs(title, content, tags) == [title |-> title, content |-> content, tags |-> tags]

\* the arguments of AddMemo: no title; a memo with an empty list of tags;
\* a memo whose text needs escaping, with a tag
AddMemoArgs ==
    {MemoArgs(<<>>, <<>>, NilTags),
     MemoArgs(<<"t">>, <<>>, TagList(<<>>)),
     MemoArgs(<<Quote>>, <<Backslash>>, TagList(<< <<"g">> >>))}

\* the arguments of UpdateMemo: a new title; a new content and tag; the
\* tags emptied
UpdateMemoArgs ==
    {MemoArgs(<<Quote>>, <<>>, NilTags),
     MemoArgs(<<>>, <<Backslash>>, TagList(<< <<"g">> >>)),
     MemoArgs(<<>>, <<>>, TagList(<<>>))}

\* the identifiers that uuid.New().String() can issue
MemoIds == {Itoa(k) : k \in 1..MaxMemoOps}

\* uuid.New().String(): an identifier that was not issued before
NewID(issued) == Itoa(Cardinality(issued) + 1)

RECURSIVE EscapeString(_)
\* the body of a JSON string: quote and backslash are escaped
EscapeString(s) ==
    IF s = <<>> THEN <<>>
    ELSE IF Head(s) \in {Quote, Backslash}
    THEN <<Backslash, Head(s)>> \o EscapeString(Tail(s))
    ELSE <<Head(s)>> \o EscapeString(Tail(s))

RECURSIVE UnescapeString(_)
UnescapeString(s) ==
    IF s = <<>> THEN <<>>
    ELSE IF Head(s) = Backslash /\ Len(s) >= 2
    THEN <<s[2]>> \o UnescapeString(Tail(Tail(s)))
    ELSE <<Head(s)>> \o UnescapeString(Tail(s))

\* json.Marshal of a string
MarshalString(s) == <<Quote>> \o EscapeString(s) \o <<Quote>>

\* json.Unmarshal of a string
UnmarshalString(j) == UnescapeString(SubSeq(j, 2, Len(j) - 1))

\* json.Marshal of a Memo: tags are omitted when the slice is nil or empty
MarshalMemo(memo) ==
    [id |-> MarshalString(memo.ID),
     title |-> MarshalString(memo.Title),
     content |-> MarshalString(memo.Content),
     hasTags |-> Len(memo.Tags.elems) > 0,
     tags |-> [i \in 1..Len(memo.Tags.elems) |-> MarshalString(memo.Tags.elems[i])]]

\* json.Unmarshal of a Memo: a missing tags member leaves the slice nil
UnmarshalMemo(j) ==
    [ID |-> UnmarshalString(j.id),
     Title |-> UnmarshalString(j.title),
     Content |-> UnmarshalString(j.content),
     Tags |-> IF j.hasTags
              THEN TagList([i \in 1..Len(j.tags) |-> UnmarshalString(j.tags[i])])
              ELSE NilTags]

\* saveUnlocked: the file written holds one member for each memo of the
\* map; their order in the array is the iteration order of the map, which
\* nothing fixes, and is drawn when the file is read
saveUnlocked(store) ==
    [exists |-> TRUE, data |-> {MarshalMemo(store[id]) : id \in DOMAIN store}]

NoFile == [exists |-> FALSE, data |-> {}]

\* the loop of load over the unmarshalled array: a later memo replaces an
\* earlier one of the same ID
loadArray(data) ==
    LET ms == [i \in 1..Len(data) |-> UnmarshalMemo(data[i])]
        ids == {ms[i].ID : i \in 1..Len(ms)}
    IN  [id \in ids |->
            ms[CHOOSE i \in 1..Len(ms) :
                  /\ ms[i].ID = id
                  /\ \A k \in (i + 1)..Len(ms) : ms[k].ID # id]]

\* load: the maps that can be built from the file, one for each order of
\* its array; a missing file leaves the map empty
load(file) ==
    IF ~file.exists THEN {<<>>}
    ELSE {loadArray(o) : o \in MapOrders(file.data)}

\* a plausible slip: the write lock is granted while readers hold the mutex
CanLock_ignoresReaders(mu) == mu.writer = 0

\* sync.RWMutex
Unlocked == [writer |-> 0, readers |-> {}]

\* a plausible slip: the write lock is taken without waiting
CanLock_noExclusion(mu) == TRUE

\* Lock waits until no goroutine holds the mutex
CanLock(mu) == mu.writer = 0 /\ mu.readers = {}

\* RLock waits until no writer holds the mutex
CanRLock(mu) == mu.writer = 0

AllIdle == \A t \in Threads : memos.pc[t] = "idle"

OthersIdle(t) == \A u \in Threads \ {t} : memos.pc[u] = "idle"

\* goroutines have no names: a call starts on the first idle one
CanStart(t) ==
    /\ memos.pc[t] = "idle"
    /\ \A u \in Threads : u < t => memos.pc[u] # "idle"
    /\ memos.ops < MaxMemoOps

\* the record of a call that changes the set of memos other than by an add,
\* or that restarts the store: the count of memos starts afresh when no
\* other call is in flight
Rebase(t, store) ==
    IF OthersIdle(t)
    THEN [base |-> Cardinality(DOMAIN store), adds |-> 0, mixed |-> FALSE, overlapped |-> FALSE]
    ELSE [base |-> memos.hist.base, adds |-> memos.hist.adds, mixed |-> TRUE,
          overlapped |-> memos.hist.overlapped]

\* the error of saveUnlocked when os.WriteFile fails
WriteError == "failed to write memos file"

\* a plausible slip: a call that is refused empties the map on its way out
Rejected_clearsStore(err, id) ==
    [memos EXCEPT !.ops = @ + 1, !.reloaded = FALSE, !.previous = <<>>,
                  !.lastErr = err, !.lastId = id, !.store = <<>>]

\* the return of a call that is refused before it changes anything
Rejected(err, id) ==
    [memos EXCEPT !.ops = @ + 1, !.reloaded = FALSE, !.previous = <<>>,
                  !.lastErr = err, !.lastId = id]

\* the end of a call that has changed the map under the write lock:
\* saveUnlocked writes the file, or os.WriteFile fails, the file stays as it
\* was and the error is returned with the map already changed
Modified(t, store, ok) ==
    [memos EXCEPT !.ops = @ + 1,
                  !.reloaded = FALSE,
                  !.previous = <<>>,
                  !.lastErr = IF ok THEN "" ELSE WriteError,
                  !.lastId = <<>>,
                  !.failed = @ \/ ~ok,
                  !.store = store,
                  !.file = IF ok THEN saveUnlocked(store) ELSE @,
                  !.hist = Rebase(t, store)]

\* AddMemo up to the lock: the title is checked and the memo is built
AddMemoBegin(t) ==
    /\ CanStart(t)
    /\ \E args \in AddMemoArgs :
          IF args.title = <<>>
          THEN memos' = Rejected("title is required", <<>>)
          ELSE LET id == NewID(memos.issued)
               IN  memos' = [memos EXCEPT
                      !.ops = @ + 1,
                      !.reloaded = FALSE, !.previous = <<>>,
                      !.lastErr = "",
                      !.lastId = <<>>,
                      !.issued = @ \cup {id},
                      !.pc[t] = "AddMemo.Lock",
                      !.local[t] = [memo |-> [ID |-> id, Title |-> args.title,
                                              Content |-> args.content, Tags |-> args.tags],
                                    table |-> <<>>],
                      !.hist.adds = @ + 1,
                      !.hist.overlapped = @ \/ ~OthersIdle(t)]
    /\ UNCHANGED <<call, tree, session, request, response, rerun, workspace>>

\* ms.mu.Lock(); the map assignment that follows begins by reading the table
AddMemoLock(t) ==
    /\ memos.pc[t] = "AddMemo.Lock"
    /\ CanLock(memos.mu)
    /\ memos' = [memos EXCEPT !.mu.writer = t,
                              !.pc[t] = "AddMemo.Insert",
                              !.local[t].table = memos.store]
    /\ UNCHANGED <<call, tree, session, request, response, rerun, workspace>>

\* ms.memos[memo.ID] = memo; ms.mu.Unlock()
AddMemoInsert(t) ==
    /\ memos.pc[t] = "AddMemo.Insert"
    /\ LET m == memos.local[t].memo
           table == memos.local[t].table
       IN  memos' = [memos EXCEPT
               !.store = [id \in DOMAIN table \cup {m.ID} |->
                             IF id = m.ID THEN m ELSE table[id]],
               !.mu.writer = IF @ = t THEN 0 ELSE @,
               !.pc[t] = "AddMemo.save",
               !.local[t] = <<>>]
    /\ UNCHANGED <<call, tree, session, request, response, rerun, workspace>>

\* save: ms.mu.RLock() and the marshalling of the map
AddMemoSave(t) ==
    /\ memos.pc[t] = "AddMemo.save"
    /\ CanRLock(memos.mu)
    /\ memos' = [memos EXCEPT !.mu.readers = @ \cup {t},
                              !.pc[t] = "AddMemo.WriteFile",
                              !.local[t] = saveUnlocked(memos.store)]
    /\ UNCHANGED <<call, tree, session, request, response, rerun, workspace>>

\* os.WriteFile, ms.mu.RUnlock() and the return of AddMemo
AddMemoWriteFile(t) ==
    /\ memos.pc[t] = "AddMemo.WriteFile"
    /\ \E ok \in BOOLEAN :
          memos' = [memos EXCEPT !.file = IF ok THEN memos.local[t] ELSE @,
                                  !.lastErr = IF ok THEN "" ELSE WriteError,
                                  !.lastId = <<>>,
                                  !.failed = @ \/ ~ok,
                                  !.mu.readers = @ \ {t},
                                  !.pc[t] = "idle",
                                  !.local[t] = <<>>]
    /\ UNCHANGED <<call, tree, session, request, response, rerun, workspace>>

\* GetMemo: the whole call runs under the read lock
GetMemo(t) ==
    /\ CanStart(t)
    /\ CanRLock(memos.mu)
    /\ \E id \in MemoIds :
          memos' = IF id \notin DOMAIN memos.store THEN Rejected("memo not found", id)
                   ELSE Rejected("", id)
    /\ UNCHANGED <<call, tree, session, request, response, rerun, workspace>>

\* UpdateMemo: the whole call runs under the write lock
UpdateMemo(t) ==
    /\ CanStart(t)
    /\ CanLock(memos.mu)
    /\ \E id \in MemoIds, args \in UpdateMemoArgs :
          IF id \notin DOMAIN memos.store
          THEN memos' = Rejected("memo not found", id)
          ELSE LET old == memos.store[id]
                   memo == [ID |-> id,
                            Title |-> IF args.title # <<>> THEN args.title ELSE old.Title,
                            Content |-> IF args.content # <<>> THEN args.content
                                        ELSE old.Content,
                            Tags |-> IF ~args.tags.isNil THEN args.tags ELSE old.Tags]
                   store == [memos.store EXCEPT ![id] = memo]
               IN  \E ok \in BOOLEAN : memos' = Modified(t, store, ok)
    /\ UNCHANGED <<call, tree, session, request, response, rerun, workspace>>

\* DeleteMemo: the whole call runs under the write lock
DeleteMemo(t) ==
    /\ CanStart(t)
    /\ CanLock(memos.mu)
    /\ \E id \in MemoIds :
          IF id \notin DOMAIN memos.store
          THEN memos' = Rejected("memo not found", id)
          ELSE LET store == [k \in DOMAIN memos.store \ {id} |-> memos.store[k]]
               IN  \E ok \in BOOLEAN : memos' = Modified(t, store, ok)
    /\ UNCHANGED <<call, tree, session, request, response, rerun, workspace>>

\* a plausible slip: the map is emptied and the file is left as it was
DeleteAllMemos_noSave(t) ==
    /\ CanStart(t)
    /\ CanLock(memos.mu)
    /\ memos' = [memos EXCEPT !.ops = @ + 1,
                              !.reloaded = FALSE,
                              !.previous = <<>>,
                              !.lastErr = "",
                              !.lastId = <<>>,
                              !.store = <<>>,
                              !.hist = Rebase(t, <<>>)]
    /\ UNCHANGED <<call, tree, session, request, response, rerun, workspace>>

\* DeleteAllMemos: the whole call runs under the write lock
DeleteAllMemos(t) ==
    /\ CanStart(t)
    /\ CanLock(memos.mu)
    /\ \E ok \in BOOLEAN : memos' = Modified(t, <<>>, ok)
    /\ UNCHANGED <<call, tree, session, request, response, rerun, workspace>>

\* a new session: the process starts again on the same workspace directory
\* and InitializeMemoStore loads memos.json
InitializeMemoStore ==
    /\ AllIdle
    /\ memos.ops < MaxMemoOps
    /\ ~memos.reloaded
    /\ \E store \in load(memos.file) :
           memos' = [memos EXCEPT !.ops = @ + 1,
                                  !.reloaded = TRUE,
                                  !.lastErr = "",
                                  !.lastId = <<>>,
                                  !.previous = memos.store,
                                  !.store = store,
                                  !.mu = Unlocked,
                                  !.hist = Rebase(1, store)]
    /\ UNCHANGED <<call, tree, session, request, response, rerun, workspace>>

\* the store of a first session on an empty workspace directory
InitMemo ==
    /\ memos = [store |-> <<>>,
                file |-> NoFile,
                mu |-> Unlocked,
                pc |-> [t \in Threads |-> "idle"],
                local |-> [t \in Threads |-> <<>>],
                issued |-> {},
                ops |-> 0,
                lastErr |-> "",
                lastId |-> <<>>,
                failed |-> FALSE,
                reloaded |-> FALSE,
                previous |-> <<>>,
                hist |-> [base |-> 0, adds |-> 0, mixed |-> FALSE, overlapped |-> FALSE]]
    /\ call = <<>>
    /\ tree = <<>>
    /\ session = <<>>
    /\ request = <<>>
    /\ response = <<>>
    /\ rerun = <<>>
    /\ workspace = <<>>

NextMemo ==
    \/ \E t \in Threads : AddMemoBegin(t)
    \/ \E t \in Threads : AddMemoLock(t)
    \/ \E t \in Threads : AddMemoInsert(t)
    \/ \E t \in Threads : AddMemoSave(t)
    \/ \E t \in Threads : AddMemoWriteFile(t)
    \/ \E t \in Threads : GetMemo(t)
    \/ \E t \in Threads : UpdateMemo(t)
    \/ \E t \in Threads : DeleteMemo(t)
    \/ \E t \in Threads : DeleteAllMemos(t)
    \/ InitializeMemoStore

SpecMemo == InitMemo /\ [][NextMemo]_vars

(***************************************************************************)
(* Properties of the memo store, checked under SpecMemo.                   *)
(***************************************************************************)
\* Count
Count == Cardinality(DOMAIN memos.store)

\* C19: when AddMemo calls with non-empty titles have run, some of them
\* at the same time, and all have returned, the store holds one memo more
\* for each of them: no add is lost.
C19_NoAddLost ==
    (AllIdle /\ ~memos.hist.mixed) => Count = memos.hist.base + memos.hist.adds

\* two adds ran at the same time and both have returned
C19_Witness ==
    /\ AllIdle
    /\ ~memos.hist.mixed
    /\ memos.hist.overlapped
    /\ memos.hist.adds >= 2
    /\ Count = memos.hist.base + memos.hist.adds

\* every call so far was issued when no other call was in flight
OneAtATime == ~memos.hist.overlapped /\ ~memos.hist.mixed

\* no write of memos.json has failed
AllSaved == ~memos.failed

\* id, title, content and tags of a memo
MemoFields(memo) ==
    [ID |-> memo.ID, Title |-> memo.Title, Content |-> memo.Content, Tags |-> memo.Tags.elems]

\* C20: after modifications issued one at a time, a store initialised again
\* from the same workspace directory holds exactly the memos of the store
\* in memory before, with the same id, title, content and tags.
C20_Persistent ==
    (memos.reloaded /\ OneAtATime /\ AllSaved) =>
        /\ DOMAIN memos.store = DOMAIN memos.previous
        /\ \A id \in DOMAIN memos.store :
              MemoFields(memos.store[id]) = MemoFields(memos.previous[id])

\* a memo whose text needs escaping was added, another call followed, and
\* the store was initialised again
C20_Witness ==
    /\ memos.reloaded
    /\ OneAtATime
    /\ AllSaved
    /\ memos.ops = MaxMemoOps
    /\ \E id \in DOMAIN memos.store :
          /\ memos.store[id].Title = <<Quote>>
          /\ memos.store[id].Content = <<Backslash>>
          /\ memos.store[id].Tags.elems # <<>>

\* the memos of the file are those of the map, field by field
FileAgrees ==
    \A loaded \in load(memos.file) :
        /\ DOMAIN loaded = DOMAIN memos.store
        /\ \A id \in DOMAIN loaded : MemoFields(loaded[id]) = MemoFields(memos.store[id])

\* C21: a step in which AddMemo is refused for an empty title, or GetMemo,
\* UpdateMemo or DeleteMemo for an id that is not in the store, leaves the
\* map and the file as they were.
C21_RejectedUnchanged ==
    [][(memos'.ops = memos.ops + 1 /\ memos'.lastErr \in {"title is required", "memo not found"})
          => (memos'.store = memos.store /\ memos'.file = memos.file)]_vars

\* a call was refused for an id that was issued and deleted before, with
\* another memo still in the store
C21_Witness ==
    /\ memos.lastErr = "memo not found"
    /\ memos.lastId \in memos.issued
    /\ memos.lastId \notin DOMAIN memos.store
    /\ memos.store # <<>>

\* C28: when calls have run at the same time and all have returned
\* without a failed write, memos.json holds exactly the memos of the map:
\* no save writes a snapshot older than the map.
C28_FileMatchesStore ==
    (AllIdle /\ AllSaved) => FileAgrees

\* a change of an existing memo ran while an add was in flight, and all
\* calls have returned
C28_Witness ==
    /\ AllIdle
    /\ AllSaved
    /\ memos.hist.mixed
    /\ Cardinality(DOMAIN memos.store) >= 2
    /\ FileAgrees

\* C29 (as claimed): after calls issued one at a time, some of which
\* returned the error of a failed write, the map is what memos.json holds:
\* the failed call left the map as it was.
C29_AsClaimed ==
    (AllIdle /\ OneAtATime /\ memos.failed) => FileAgrees

(***************************************************************************)
(* Session defaults and the listing tools (handleListFiles,                *)
(* handleListCommits): a behaviour sets and clears defaults and calls the  *)
(* tools with and without their parameters.                                *)
(***************************************************************************)
ListFilesLimitFallback == 50

CommitLimitFallback == 20

\* the working tree of the repository, in walk order
SessionTree == ListCandidates

\* git log of the repository, newest commit first
CommitLog == <<"c3", "c2", "c1">>

\* ListCommits on a valid repository: git log with --max-count when limit > 0
ListCommits(limit) ==
    IF limit > 0 /\ limit < Len(CommitLog) THEN SubSeq(CommitLog, 1, limit) ELSE CommitLog

handleListFiles(sc, args) ==
    IF args.Repository = ""
    THEN [IsError |-> TRUE, Text |-> "Error: repository path is required", items |-> <<>>]
    ELSE LET limit == IF args.Limit = 0 THEN ListFilesLimitFallback ELSE args.Limit
             out == ListFiles(SessionTree, <<>>, args.Recursive, args.IncludePatterns,
                              args.ExcludePatterns, limit)
         IN  IF out.err
             THEN [IsError |-> TRUE, Text |-> "Failed to list files", items |-> <<>>]
             ELSE [IsError |-> FALSE, Text |-> "Files",
                   items |-> [i \in 1..Len(out.files) |-> out.files[i].Path]]

handleListCommits(sc, args) ==
    IF args.Repository = ""
    THEN [IsError |-> TRUE, Text |-> "Error: repository path is required", items |-> <<>>]
    ELSE LET limit == IF args.Limit = 0 THEN CommitLimitFallback ELSE args.Limit
         IN  [IsError |-> FALSE, Text |-> "Commits", items |-> ListCommits(limit)]

\* the defaults a session 'set' can carry
SessionDefaults ==
    {[EmptySessionConfig EXCEPT !.DefaultRepository = r,
                                !.DefaultExcludePatterns = e,
                                !.DefaultListFilesLimit = l,
                                !.DefaultCommitLimit = c] :
        r \in {"", Repo}, e \in {<<>>, << <<"v", "/">> >>}, l \in 0..MaxLimit, c \in {0, 1}}

\* the arguments of a listing call; "" and 0 and <<>> are omitted parameters
ListingArgs ==
    [Repository : {"", Repo}, Limit : 0..MaxLimit, Recursive : BOOLEAN,
     IncludePatterns : {<<>>}, ExcludePatterns : {<<>>, << <<"v", "w", "/">> >>}]

SetDefaults ==
    /\ \E config \in SessionDefaults : session' = SetSessionConfigValues(session, config)
    /\ UNCHANGED <<call, tree, request, response, rerun, workspace, memos>>

ClearDefaults ==
    /\ session # EmptySessionConfig
    /\ session' = ClearSessionConfig
    /\ UNCHANGED <<call, tree, request, response, rerun, workspace, memos>>

CallHandleListFiles ==
    /\ \E args \in ListingArgs :
          call' = [fn |-> "handleListFiles", args |-> args, session |-> session,
                   result |-> handleListFiles(session, args)]
    /\ UNCHANGED <<tree, session, request, response, rerun, workspace, memos>>

CallHandleListCommits ==
    /\ \E args \in ListingArgs :
          /\ args.ExcludePatterns = <<>>
          /\ ~args.Recursive
          /\ call' = [fn |-> "handleListCommits", args |-> args, session |-> session,
                      result |-> handleListCommits(session, args)]
    /\ UNCHANGED <<tree, session, request, response, rerun, workspace, memos>>

InitSession ==
    /\ session = EmptySessionConfig
    /\ call = NoCall
    /\ tree = <<>>
    /\ request = <<>>
    /\ response = <<>>
    /\ rerun = <<>>
    /\ workspace = <<>>
    /\ memos = <<>>

NextSession == SetDefaults \/ ClearDefaults \/ CallHandleListFiles \/ CallHandleListCommits

SpecSession == InitSession /\ [][NextSession]_vars

(***************************************************************************)
(* Properties of the session defaults, checked under SpecSession.          *)
(***************************************************************************)
\* the arguments with every omitted parameter replaced by the default the
\* session holds for it
WithDefaults(sc, args, limitDefault) ==
    [args EXCEPT
        !.Repository = IF @ = "" THEN sc.DefaultRepository ELSE @,
        !.Limit = IF @ = 0 /\ limitDefault > 0 THEN limitDefault ELSE @,
        !.IncludePatterns = IF @ = <<>> THEN sc.DefaultIncludePatterns ELSE @,
        !.ExcludePatterns = IF @ = <<>> THEN sc.DefaultExcludePatterns ELSE @]

\* C22 (as claimed): a listing call that omits a parameter for which the
\* session holds a default gives the result of the same call with the
\* default passed explicitly.
C22_AsClaimed ==
    /\ call.fn = "handleListFiles" =>
          call.result = handleListFiles(call.session,
                            WithDefaults(call.session, call.args,
                                         call.session.DefaultListFilesLimit))
    /\ call.fn = "handleListCommits" =>
          call.result = handleListCommits(call.session,
                            [WithDefaults(call.session, call.args,
                                          call.session.DefaultCommitLimit)
                                EXCEPT !.ExcludePatterns = <<>>])

(***************************************************************************)
(* File contents (GetFileContent, GetFileContentWithLineNumbers and the    *)
(* two functions for several files), on a repository whose path is valid.  *)
(***************************************************************************)
\* file paths in one request
MaxPaths == 2

\* the highest start line requested
MaxStartLine == 3

\* os.Open and the scan of the lines of a file of the tree
ReadLines(t, filePath) ==
    LET fs == SelectSeq(TrackedFiles(t), LAMBDA f : f.path = filePath)
    IN  IF fs = <<>> THEN [err |-> "failed to open file", lines |-> <<>>]
        ELSE [err |-> "", lines |-> fs[1].lines]

\* GetFileContent with a line limit (0 is no limit)
GetFileContentMaxLines(t, filePath, maxLines) ==
    LET f == ReadLines(t, filePath)
        n == IF maxLines = 0 \/ maxLines > Len(f.lines) THEN Len(f.lines) ELSE maxLines
    IN  IF f.err # "" THEN [err |-> f.err, content |-> <<>>]
        ELSE [err |-> "", content |-> ConcatLines(SubSeq(f.lines, 1, n))]

\* fmt.Sprintf("%4d: %s\n", currentLine, text)
NumberedLine(currentLine, text) ==
    LET digits == Itoa(currentLine)
        pad == [k \in 1..(IF Len(digits) < 4 THEN 4 - Len(digits) ELSE 0) |-> " "]
    IN  pad \o digits \o <<":", " ">> \o text \o Newline

RECURSIVE contentFrom(_, _, _, _)
\* the second pass over the lines from currentLine on
contentFrom(lines, currentLine, linesLeft, showLineNumbers) ==
    IF currentLine > Len(lines) \/ linesLeft = 0 THEN <<>>
    ELSE (IF showLineNumbers THEN NumberedLine(currentLine, lines[currentLine])
          ELSE lines[currentLine] \o Newline)
         \o contentFrom(lines, currentLine + 1, linesLeft - 1, showLineNumbers)

\* content, totalLines, actualStartLine, actualEndLine, error
GetFileContentWithLineNumbers(t, filePath, startLineArg, maxLines, showLineNumbers) ==
    LET f == ReadLines(t, filePath)
        totalLines == Len(f.lines)
        startLine == IF startLineArg < 1 THEN 1 ELSE startLineArg
        rest == totalLines - startLine + 1
        linesRead == IF maxLines > 0 /\ maxLines < rest THEN maxLines ELSE rest
    IN  IF f.err # ""
        THEN [err |-> f.err, content |-> <<>>, totalLines |-> 0, startLine |-> 0,
              endLine |-> 0]
        ELSE IF startLine > totalLines
        THEN [err |-> "", content |-> <<>>, totalLines |-> totalLines,
              startLine |-> startLine, endLine |-> startLine]
        ELSE [err |-> "",
              content |-> contentFrom(f.lines, startLine, linesRead, showLineNumbers),
              totalLines |-> totalLines,
              startLine |-> startLine,
              endLine |-> IF linesRead = 0 THEN startLine ELSE startLine + linesRead - 1]

FileContentResult(filePath) ==
    [FilePath |-> filePath, Content |-> <<>>, Error |-> "", TotalLines |-> 0,
     StartLine |-> 0, EndLine |-> 0]

RECURSIVE GetMultipleFileContents_failFast(_, _, _)
\* a plausible slip: the loop ends at the first file that cannot be read
GetMultipleFileContents_failFast(t, filePaths, maxLines) ==
    IF filePaths = <<>> THEN <<>>
    ELSE LET c == GetFileContentMaxLines(t, Head(filePaths), maxLines)
         IN  IF c.err # ""
             THEN << [FileContentResult(Head(filePaths)) EXCEPT !.Error = c.err] >>
             ELSE << [FileContentResult(Head(filePaths)) EXCEPT !.Content = c.content] >>
                  \o GetMultipleFileContents_failFast(t, Tail(filePaths), maxLines)

\* the results of GetMultipleFileContents; the call returns no error
GetMultipleFileContents(t, filePaths, maxLines) ==
    [i \in 1..Len(filePaths) |->
        LET c == GetFileContentMaxLines(t, filePaths[i], maxLines)
        IN  IF c.err # "" THEN [FileContentResult(filePaths[i]) EXCEPT !.Error = c.err]
            ELSE [FileContentResult(filePaths[i]) EXCEPT !.Content = c.content]]

\* the results of GetMultipleFileContentsWithLineNumbers
GetMultipleFileContentsWithLineNumbers(t, filePaths, startLine, maxLines, showLineNumbers) ==
    [i \in 1..Len(filePaths) |->
        LET c == GetFileContentWithLineNumbers(t, filePaths[i], startLine, maxLines,
                                               showLineNumbers)
        IN  IF c.err # "" THEN [FileContentResult(filePaths[i]) EXCEPT !.Error = c.err]
            ELSE [FileContentResult(filePaths[i]) EXCEPT !.Content = c.content,
                                                         !.TotalLines = c.totalLines,
                                                         !.StartLine = c.startLine,
                                                         !.EndLine = c.endLine]]

\* the paths of a request: files of the tree and files that may be missing
ContentPaths == {AllFiles[i] : i \in 1..Len(AllFiles)}

CallGetFileContentWithLineNumbers ==
    /\ call = NoCall
    /\ \E filePath \in ContentPaths, startLine \in 0..MaxStartLine, maxLines \in 0..MaxLimit,
          showLineNumbers \in BOOLEAN :
          call' = [fn |-> "GetFileContentWithLineNumbers", filePath |-> filePath,
                   startLine |-> startLine, maxLines |-> maxLines,
                   out |-> GetFileContentWithLineNumbers(tree, filePath, startLine,
                                                         maxLines, showLineNumbers)]
    /\ UNCHANGED <<tree, session, request, response, rerun, workspace, memos>>

CallGetMultipleFileContents ==
    /\ call = NoCall
    /\ \E filePaths \in SeqsUpTo(ContentPaths, MaxPaths), maxLines \in 0..MaxLimit :
          call' = [fn |-> "GetMultipleFileContents", filePaths |-> filePaths,
                   startLine |-> 1, maxLines |-> maxLines, showLineNumbers |-> FALSE,
                   results |-> GetMultipleFileContents(tree, filePaths, maxLines)]
    /\ UNCHANGED <<tree, session, request, response, rerun, workspace, memos>>

CallGetMultipleFileContentsWithLineNumbers ==
    /\ call = NoCall
    /\ \E filePaths \in SeqsUpTo(ContentPaths, MaxPaths), startLine \in 1..2,
          maxLines \in 0..MaxLimit, showLineNumbers \in BOOLEAN :
          call' = [fn |-> "GetMultipleFileContentsWithLineNumbers",
                   filePaths |-> filePaths, startLine |-> startLine,
                   maxLines |-> maxLines, showLineNumbers |-> showLineNumbers,
                   results |-> GetMultipleFileContentsWithLineNumbers(
                                   tree, filePaths, startLine, maxLines, showLineNumbers)]
    /\ UNCHANGED <<tree, session, request, response, rerun, workspace, memos>>

InitContent ==
    /\ call = NoCall
    /\ tree \in Trees
    /\ session = <<>>
    /\ request = <<>>
    /\ response = <<>>
    /\ rerun = <<>>
    /\ workspace = <<>>
    /\ memos = <<>>

NextContent ==
    \/ CallGetFileContentWithLineNumbers
    \/ CallGetMultipleFileContents
    \/ CallGetMultipleFileContentsWithLineNumbers

SpecContent == InitContent /\ [][NextContent]_vars

(***************************************************************************)
(* Properties of the file contents, checked under SpecContent.             *)
(***************************************************************************)
MultiCall ==
    call.fn \in {"GetMultipleFileContents", "GetMultipleFileContentsWithLineNumbers"}

\* the file is in the tree
Readable(filePath) == \E i \in 1..Len(AllFiles) : AllFiles[i] = filePath /\ tree[i].present

\* the lines a request for one file alone returns: from startLine on, at
\* most maxLines of them
RequestedLines(filePath, startLine, maxLines) ==
    LET lines == LinesOf(filePath)
        last == IF maxLines > 0 /\ startLine + maxLines - 1 < Len(lines)
                THEN startLine + maxLines - 1 ELSE Len(lines)
    IN  [k \in 1..(IF last >= startLine THEN last - startLine + 1 ELSE 0) |->
            [n |-> startLine + k - 1, text |-> lines[startLine + k - 1]]]

RECURSIVE Rendered(_, _)
Rendered(ls, showLineNumbers) ==
    IF ls = <<>> THEN <<>>
    ELSE (IF showLineNumbers THEN NumberedLine(Head(ls).n, Head(ls).text)
          ELSE Head(ls).text \o Newline) \o Rendered(Tail(ls), showLineNumbers)

\* C24: a request for several files returns one result for each path, in
\* the order of the request; a file that cannot be read has its Error set
\* and no content, and every other file has its content and no Error.
C24_OneResultPerPath ==
    MultiCall =>
        /\ Len(call.results) = Len(call.filePaths)
        /\ \A i \in 1..Len(call.filePaths) :
              LET r == call.results[i]
              IN  /\ r.FilePath = call.filePaths[i]
                  /\ r.Error # "" <=> ~Readable(call.filePaths[i])
                  /\ r.Error # "" => r.Content = <<>>
                  /\ r.Error = "" =>
                        r.Content = Rendered(RequestedLines(call.filePaths[i], call.startLine,
                                                            call.maxLines),
                                             call.showLineNumbers)

\* a missing file stands before a readable one in the request
C24_Witness ==
    /\ MultiCall
    /\ Len(call.filePaths) >= 2
    /\ call.results[1].Error # ""
    /\ call.results[2].Error = ""
    /\ call.results[2].Content # <<>>

\* C25 (as claimed): a start line beyond the last line gives no error,
\* empty content, the total line count, the requested start line, and the
\* last line number of the file as the end line.
C25_AsClaimed ==
    (/\ call.fn = "GetFileContentWithLineNumbers"
     /\ Readable(call.filePath)
     /\ call.startLine > Len(LinesOf(call.filePath)))
        => /\ call.out.err = ""
           /\ call.out.content = <<>>
           /\ call.out.totalLines = Len(LinesOf(call.filePath))
           /\ call.out.startLine = call.startLine
           /\ call.out.endLine = Len(LinesOf(call.filePath))

(***************************************************************************)
(* A search that runs beside session 'set' and 'clear' calls.  The handler *)
(* resolves its defaults through four getters of the session; each getter  *)
(* holds the read lock for its own read only, and a 'set' or a 'clear'     *)
(* holds the write lock for the whole change.                              *)
(***************************************************************************)
\* session changes beside one search
MaxChanges == 2

\* the defaults a concurrent session 'set' can carry
ConcurrentDefaults ==
    {[EmptySessionConfig EXCEPT !.DefaultRepository = r,
                                !.DefaultIncludePatterns = i,
                                !.DefaultExcludePatterns = e,
                                !.DefaultSearchLimit = l] :
        r \in {"", Repo, Missing}, i \in {<<>>, << <<"*", "n">> >>},
        e \in {<<>>, << <<"v", "/">> >>}, l \in 0..MaxLimit}

\* the arguments of the search that the session can stand in for
ConcurrentSearchArgs ==
    [Repository : {"", Repo}, Keywords : {<< <<"n">> >>}, SearchMode : {""},
     IncludeFilename : {FALSE}, ContextLines : {0}, IncludePatterns : {<<>>},
     ExcludePatterns : {<<>>, << <<"v", "/">> >>}, Limit : {0, 1}]

\* no search in flight; changes counts the session changes made so far
NoSearch(changes) == [pc |-> "idle", changes |-> changes]

\* the session was changed: a search in flight has one more state beside it
SessionChanged(sc) ==
    IF request.pc \in {"idle", "done"} THEN [request EXCEPT !.changes = @ + 1]
    ELSE [request EXCEPT !.changes = @ + 1, !.seen = @ \cup {sc}]

ConcurrentSet ==
    /\ request.changes < MaxChanges
    /\ \E config \in ConcurrentDefaults :
          /\ session' = SetSessionConfigValues(session, config)
          /\ request' = SessionChanged(session')
    /\ UNCHANGED <<call, tree, response, rerun, workspace, memos>>

ConcurrentClear ==
    /\ request.changes < MaxChanges
    /\ session # EmptySessionConfig
    /\ session' = ClearSessionConfig
    /\ request' = SessionChanged(session')
    /\ UNCHANGED <<call, tree, response, rerun, workspace, memos>>

\* handleSearchFiles is entered: keywords checked, GetSessionConfig
SearchBegin ==
    /\ request.pc = "idle"
    /\ \E args \in ConcurrentSearchArgs :
          request' = [pc |-> "limit", changes |-> request.changes, args |-> args,
                      seen |-> {session}, limit |-> 0, includePatterns |-> <<>>,
                      excludePatterns |-> <<>>]
    /\ UNCHANGED <<call, tree, session, response, rerun, workspace, memos>>

SearchGetSearchLimit ==
    /\ request.pc = "limit"
    /\ request' = [request EXCEPT !.pc = "include",
                                  !.limit = GetSearchLimit(session, request.args.Limit)]
    /\ UNCHANGED <<call, tree, session, response, rerun, workspace, memos>>

SearchGetIncludePatterns ==
    /\ request.pc = "include"
    /\ request' = [request EXCEPT !.pc = "exclude",
                       !.includePatterns =
                           GetIncludePatterns(session, request.args.IncludePatterns)]
    /\ UNCHANGED <<call, tree, session, response, rerun, workspace, memos>>

SearchGetExcludePatterns ==
    /\ request.pc = "exclude"
    /\ request' = [request EXCEPT !.pc = "repository",
                       !.excludePatterns =
                           GetExcludePatterns(session, request.args.ExcludePatterns)]
    /\ UNCHANGED <<call, tree, session, response, rerun, workspace, memos>>

\* the last default is read; the search runs with the values in response
SearchGetRepository ==
    /\ request.pc = "repository"
    /\ request' = [request EXCEPT !.pc = "done"]
    /\ response' = [limit |-> request.limit,
                    searchMode |-> "and",
                    includePatterns |-> request.includePatterns,
                    excludePatterns |-> request.excludePatterns,
                    repository |-> GetRepository(session, request.args.Repository)]
    /\ UNCHANGED <<call, tree, session, rerun, workspace, memos>>

InitConcurrent ==
    /\ session \in {EmptySessionConfig} \cup
                   {c \in ConcurrentDefaults : c.DefaultRepository = Repo}
    /\ request = NoSearch(0)
    /\ response = <<>>
    /\ call = NoCall
    /\ tree = <<>>
    /\ rerun = <<>>
    /\ workspace = <<>>
    /\ memos = <<>>

NextConcurrent ==
    \/ ConcurrentSet
    \/ ConcurrentClear
    \/ SearchBegin
    \/ SearchGetSearchLimit
    \/ SearchGetIncludePatterns
    \/ SearchGetExcludePatterns
    \/ SearchGetRepository

SpecConcurrent == InitConcurrent /\ [][NextConcurrent]_vars

(***************************************************************************)
(* Property of the concurrent search, checked under SpecConcurrent.        *)
(***************************************************************************)
\* C30 (as claimed): the limit, include patterns, exclude patterns and
\* repository a search runs with all come from one session state: the one
\* before a concurrent 'set' or 'clear' or the one after it, never a
\* mixture.
C30_AsClaimed ==
    request.pc = "done" =>
        \E sc \in request.seen : response = ResolveSearch(sc, request.args)

====
